---- MODULE Spec2Model ----
(***************************************************************************)
(* SublimePythonIDE: the editor-side Proxy objects (sublime_python.py),    *)
(* the PROXIES registry guarded by PROXY_LOCK, the external server         *)
(* processes they launch, and the server's heartbeat monitor (server.py).  *)
(*                                                                         *)
(* Spec    the registry, the Proxy objects, the server processes and the   *)
(*         two editor threads (Sublime's main thread and its async         *)
(*         thread, which also runs the set_timeout_async callbacks).       *)
(* SpecRegistry  Spec with views of two interpreters, without crashes.     *)
(* SpecAlias  views whose settings name one interpreter by two paths.      *)
(* SpecHB  one server process and the Proxy that owns it, with time in     *)
(*         seconds: the heartbeat timer, the single-threaded XML-RPC       *)
(*         server and the main-thread monitor loop of server.py.           *)
(* SpecHBFair  SpecHB with weak fairness of the clock, the server and the  *)
(*         monitor loop.                                                   *)
(* SpecProject  the rope projects and temp files of one server process     *)
(*         (RopeProjectMixin and RopeFunctionsMixin of server.py).         *)
(* SpecLint  the annotation state of the views and the checks that         *)
(*         rebuild it (sublime_python_linting.py), with the findings that  *)
(*         server/linter.py produces.                                      *)
(* SpecLintAny  the checks with findings of a class or a level that        *)
(*         parse_errors has no rule for.                                   *)
(* SpecNav  the next-error and previous-error commands on the lists of     *)
(*         erroneous lines that the checks build.                          *)
(* SpecCall  one call through Proxy.__getattr__.wrapper with the request   *)
(*         and the answer on the wire, and the worker that runs the        *)
(*         method.                                                         *)
(* SpecSave  the saves of one view, PythonOrganizeImportsOnSave and the    *)
(*         organize-imports command (sublime_python_refactorings.py).      *)
(***************************************************************************)
EXTENDS Integers, FiniteSets, Sequences, TLC

\* ---------------------------------------------------------------- constants
RETRY_CONNECTION_LIMIT == 5
HEARTBEAT_FREQUENCY == 9
HEARTBEAT_TIMEOUT == 19

\* ------------------------------------------------------------------- bounds
\* SpecHB: the seconds of one run, the longest start-up of a server process
\* (imports, bind), the longest time the server works on one request, and
\* the slack (epsilon) allowed to a deadline.
MaxTime == 64
MaxStart == 2
MaxService == 12
Eps == 1

\* SpecLint: lines of a view and findings in one lint response
MaxLine == 3
MaxFindings == 2
\* SpecNav: the calls of next/previous that the history of a list counts
MaxCalls == 5

\* SpecProject: rope projects and temp files one server creates
MaxContext == 3
MaxTemp == 2

\* Proxy objects that can be constructed and server processes that can be
\* launched.
MaxProxy == 2
MaxProc == 3
\* SpecSave: the deepest nesting of handlers and commands on the main thread
MaxDepth == 6

Threads == {"main", "async"}
\* WindowCommand.run is called on the main thread; set_timeout_async
\* callbacks (send_heartbeat) run on the async thread.
StopThreads == {"main"}
TimerThreads == {"async"}
\* values of the "python_interpreter" setting of a view: in Spec every view
\* uses the default interpreter, written "" or "python"; SpecRegistry has
\* views of a second interpreter as well
Settings == {"", "python"}
Settings2 == {"", "python", "py3"}
\* SpecAlias: "python_link" is the path of a symbolic link to the default
\* interpreter
SettingsAlias == {"", "python", "python_link"}
ProxyIds == 1..MaxProxy
ProcIds == 1..MaxProc

VARIABLES
  PROXIES,      \* registry: interpreter -> Proxy id, 0 = no entry
  PROXY_LOCK,   \* owner of the registry lock, "free" if none
  proxies,      \* Proxy objects: [python, proc, proxy]; proxy = 0 is None
  nProxy,       \* number of Proxy objects constructed so far
  procs,        \* server processes: none, starting, listening, exited, crashed
  nProc,        \* number of processes launched so far
  launched,     \* history: the Proxy whose restart() launched each process
  timers,       \* pending set_timeout_async(send_heartbeat) per Proxy
  th,           \* per thread: position in the handler it runs, and its locals
  removed       \* history: Proxy objects PythonStopServerCommand deleted

edVars == <<PROXIES, PROXY_LOCK, proxies, nProxy, procs, nProc, launched, timers,
           th, removed>>

VARIABLES
  now,            \* SpecHB: seconds since restart() launched the server
  last_heartbeat, \* server.py global, the time of the last heartbeat(); -1 is None
  wake,           \* time at which the monitor loop's sleep ends
  serverSt,       \* "off" | "starting" | "running" | "terminated"
  busy,           \* seconds the request being served still takes, 0 if none
  hbTimer,        \* seconds until the editor's heartbeat timer fires; -1: none
  hbWait,         \* TRUE while proxy.heartbeat() has not returned
  sender,         \* "off" | "firing" | "stalled": the editor's async thread
  exitAt          \* history: when the server process exited, -1 if it has not

hbVars == <<now, last_heartbeat, wake, serverSt, busy, hbTimer, hbWait, sender,
            exitAt>>

VARIABLES
  projects,           \* SpecProject: self.projects, key -> context, 0 = no entry
  buffer_tmpfile_map, \* self.buffer_tmpfile_map, buffer id -> temp file, "" = none
  tempfiles,          \* the temp files created so far: the content of each
  contexts,           \* the rope projects created so far: [kind, path] of each
  first,              \* history: the context first returned for each key
  made,               \* history: the number of contexts created for each key
  last                \* history: the last request and what project_for returned

pjVars == <<projects, buffer_tmpfile_map, tempfiles, contexts, first, made, last>>

VARIABLES
  error_messages,       \* SpecLint: per view id, line -> list of messages;
  violation_messages,   \*   <<>> stands for "no such key"
  warning_messages,
  error_underlines,     \* per view id, the list of underlined regions
  violation_underlines,
  warning_underlines,
  erroneous_lines,      \* per view id, the ListWithPointer; set = FALSE: no entry
  marks,                \* per view id, the outline regions drawn in the view
  ltLast,               \* history: the view, the response and the outcome of
                        \*   the last check
  cursor,               \* per view id, the zero-based line the editor shows
  nav                   \* history, per view id: the calls of next/previous on
                        \*   the current list of the view

ltVars == <<error_messages, violation_messages, warning_messages,
            error_underlines, violation_underlines, warning_underlines,
            erroneous_lines, marks, ltLast, cursor, nav>>

VARIABLES
  wrapper,   \* SpecCall: the wrapper's position and its attr, tries, result
  worker,    \* the process of the Proxy: starting, listening or exited
  wire,      \* the request or the answer between wrapper and worker
  ran        \* history: how often a worker ran the method for this call

clVars == <<wrapper, worker, wire, ran>>

VARIABLES
  post_save_is_on,  \* SpecSave: PythonOrganizeImportsOnSave._post_save_is_on
  stack,            \* the calls in progress on the main thread, outermost first
  view,             \* the view: is_dirty(), file_name() set, the setting
  svLast            \* history: a handler returned at the test of the flag;
                    \*   the command raised inside a handler

svVars == <<post_save_is_on, stack, view, svLast>>

vars == <<edVars, hbVars, pjVars, ltVars, clVars, svVars>>

\* what the actions of the editor side, of SpecHB and of SpecProject leave
\* unchanged
offEd == <<hbVars, pjVars, ltVars, clVars, svVars>>
offHB == <<edVars, pjVars, ltVars, clVars, svVars>>
offPj == <<edVars, hbVars, ltVars, clVars, svVars>>
offLt == <<edVars, hbVars, pjVars, clVars, svVars>>
offCl == <<edVars, hbVars, pjVars, ltVars, svVars>>
offSv == <<edVars, hbVars, pjVars, ltVars, clVars>>

\* everything of the editor side but the threads' own state
shared == <<PROXIES, PROXY_LOCK, proxies, nProxy, procs, nProc, launched, timers,
           removed>>

\* ------------------------------------------------------------------ helpers
Keys == {"python", "py3", "python_link"}

\* proxy_for / PythonStopServerCommand.run: the registry key of a setting
interpreter(setting) == IF setting = "" THEN "python" ELSE setting

NoProxy == [python |-> "", proc |-> 0, proxy |-> 0]
\* track is history of one wrapper call: TRUE when the Proxy's process had
\* served and then exited as the call began and, since then, no call of it met a fault, no
\* restart() raised or launched a process that crashed, and the Proxy's
\* current process was listening whenever a retry was sent
IdleTh == [pc |-> "idle", python |-> "", self |-> 0, method |-> 0, tries |-> 0,
           out |-> "", track |-> FALSE]

\* proc.poll() is None
Alive(p) == procs[p] \in {"starting", "listening"}

\* A ServerProxy object is named by the process that restart() launched
\* together with it: it connects to the port get_free_port returned for that
\* process. The kernel hands out a fresh ephemeral port for each launch, so
\* the only process that can ever answer ServerProxy c is process c.
Listening(c) == procs[c] = "listening"

\* an RPC of thread t is on the wire
InFlight(t) == th[t].pc \in {"w_call", "hb_call"}

\* Proxy.restart on Proxy s: a free port, Popen, a new ServerProxy for that
\* port, and one more heartbeat timer. st = "crashed": the launched process
\* has already exited when restart returns (interpreter missing).
restart(s, python, st) ==
  /\ nProc < MaxProc
  /\ st \in {"starting", "crashed"}
  /\ nProc' = nProc + 1
  /\ procs' = [procs EXCEPT ![nProc + 1] = st]
  /\ launched' = [launched EXCEPT ![nProc + 1] = s]
  /\ proxies' = [proxies EXCEPT ![s] = [python |-> python, proc |-> nProc + 1,
                                        proxy |-> nProc + 1]]
  /\ timers' = [timers EXCEPT ![s] = @ + 1]

\* ------------------------------------------------------------ proxy_for
\* proxy_for without the lock: the check and the construction of two
\* threads interleave
proxy_for_enter_unlocked(t, setting) ==
  /\ th[t].pc = "idle"
  /\ PROXY_LOCK' = t
  /\ th' = [th EXCEPT ![t] = [IdleTh EXCEPT !.pc = "pf_in",
                                            !.python = interpreter(setting)]]
  /\ UNCHANGED <<PROXIES, proxies, nProxy, procs, nProc, launched, timers, removed>>
  /\ UNCHANGED offEd

\* `with PROXY_LOCK:` and the read of the view's setting
proxy_for_enter(t, setting) ==
  /\ th[t].pc = "idle"
  /\ PROXY_LOCK = "free"
  /\ PROXY_LOCK' = t
  /\ th' = [th EXCEPT ![t] = [IdleTh EXCEPT !.pc = "pf_in",
                                            !.python = interpreter(setting)]]
  /\ UNCHANGED <<PROXIES, proxies, nProxy, procs, nProc, launched, timers, removed>>
  /\ UNCHANGED offEd

\* proxy_for that returns the Proxy it found with the lock still held
proxy_for_hit_locked(t) ==
  /\ th[t].pc = "pf_in"
  /\ PROXIES[th[t].python] # 0
  /\ th' = [th EXCEPT ![t].pc = "w_check", ![t].self = PROXIES[th[t].python]]
  /\ UNCHANGED <<PROXIES, PROXY_LOCK, proxies, nProxy, procs, nProc, launched,
                 timers, removed>>
  /\ UNCHANGED offEd

\* `if python in PROXIES: proxy = PROXIES[python]`, end of the with block
proxy_for_hit(t) ==
  /\ th[t].pc = "pf_in"
  /\ PROXIES[th[t].python] # 0
  /\ PROXY_LOCK' = "free"
  /\ th' = [th EXCEPT ![t].pc = "w_check", ![t].self = PROXIES[th[t].python]]
  /\ UNCHANGED <<PROXIES, proxies, nProxy, procs, nProc, launched, timers, removed>>
  /\ UNCHANGED offEd

\* `else:` branch taken
proxy_for_miss(t) ==
  /\ th[t].pc = "pf_in"
  /\ PROXIES[th[t].python] = 0
  /\ th' = [th EXCEPT ![t].pc = "pf_new"]
  /\ UNCHANGED shared
  /\ UNCHANGED offEd

\* `proxy = Proxy(python); PROXIES[python] = proxy`, end of the with block
proxy_for_construct(t, st) ==
  /\ th[t].pc = "pf_new"
  /\ nProxy < MaxProxy
  /\ restart(nProxy + 1, th[t].python, st)
  /\ nProxy' = nProxy + 1
  /\ PROXIES' = [PROXIES EXCEPT ![th[t].python] = nProxy + 1]
  /\ PROXY_LOCK' = "free"
  /\ th' = [th EXCEPT ![t].pc = "w_check", ![t].self = nProxy + 1]
  /\ UNCHANGED removed
  /\ UNCHANGED offEd

\* proxy_for with acquire()/release() in place of the with block: the
\* exception skips the release
proxy_for_raise_locked(t) ==
  /\ th[t].pc = "pf_new"
  /\ th' = [th EXCEPT ![t].pc = "done", ![t].out = "pf_raised"]
  /\ UNCHANGED <<PROXIES, PROXY_LOCK, proxies, nProxy, procs, nProc, launched, timers,
                 removed>>
  /\ UNCHANGED offEd

\* Proxy(python) raises (socket() or Popen fails with OSError): the with
\* block releases the lock and the exception leaves proxy_for
proxy_for_raise(t) ==
  /\ th[t].pc = "pf_new"
  /\ PROXY_LOCK' = "free"
  /\ th' = [th EXCEPT ![t].pc = "done", ![t].out = "pf_raised"]
  /\ UNCHANGED <<PROXIES, proxies, nProxy, procs, nProc, launched, timers, removed>>
  /\ UNCHANGED offEd

\* --------------------------------------------- Proxy.__getattr__.wrapper
\* `if not self.proxy:` is false: go on to bind the method
wrapper_check(t) ==
  /\ th[t].pc = "w_check"
  /\ proxies[th[t].self].proxy # 0
  /\ th' = [th EXCEPT ![t].pc = "w_bind",
                      ![t].track = procs[proxies[th[t].self].proc] = "exited"]
  /\ UNCHANGED shared
  /\ UNCHANGED offEd

\* `if not self.proxy: self.restart(); time.sleep(0.2)`
wrapper_check_restart(t, st) ==
  /\ th[t].pc = "w_check"
  /\ proxies[th[t].self].proxy = 0
  /\ restart(th[t].self, proxies[th[t].self].python, st)
  /\ th' = [th EXCEPT ![t].pc = "w_bind"]
  /\ UNCHANGED <<PROXIES, PROXY_LOCK, nProxy, removed>>
  /\ UNCHANGED offEd

\* that restart() raises: the exception leaves the wrapper
wrapper_check_raise(t) ==
  /\ th[t].pc = "w_check"
  /\ proxies[th[t].self].proxy = 0
  /\ th' = [th EXCEPT ![t].pc = "done", ![t].out = "raised"]
  /\ UNCHANGED shared
  /\ UNCHANGED offEd

\* `method = getattr(self.proxy, attr); result = None; tries = 0`
\* getattr(None, attr) raises AttributeError
wrapper_bind(t) ==
  /\ th[t].pc = "w_bind"
  /\ LET c == proxies[th[t].self].proxy IN
     IF c = 0
     THEN th' = [th EXCEPT ![t].pc = "done", ![t].out = "raised",
                           ![t].track = FALSE]
     ELSE th' = [th EXCEPT ![t].pc = "w_loop", ![t].method = c, ![t].tries = 0]
  /\ UNCHANGED shared
  /\ UNCHANGED offEd

\* `while tries < RETRY_CONNECTION_LIMIT: result = method(*args)`: request sent
wrapper_send(t) ==
  /\ th[t].pc = "w_loop"
  /\ th[t].tries < RETRY_CONNECTION_LIMIT
  /\ th' = [th EXCEPT ![t].pc = "w_call",
                      ![t].track = @ /\ (th[t].tries = 0 \/
                                          Listening(proxies[th[t].self].proc))]
  /\ UNCHANGED shared
  /\ UNCHANGED offEd

\* the loop condition fails: `return result` with result = None
wrapper_giveup(t) ==
  /\ th[t].pc = "w_loop"
  /\ th[t].tries >= RETRY_CONNECTION_LIMIT
  /\ th' = [th EXCEPT ![t].pc = "done", ![t].out = "none"]
  /\ UNCHANGED shared
  /\ UNCHANGED offEd

\* the server on the method's port answers: `break; return result`
wrapper_ok(t) ==
  /\ th[t].pc = "w_call"
  /\ Listening(th[t].method)
  /\ th' = [th EXCEPT ![t].pc = "done", ![t].out = "ok"]
  /\ UNCHANGED shared
  /\ UNCHANGED offEd

\* `if self.proc.poll() is None:` after a failed attempt: retry in place
\* (time.sleep(0.2)) or go on to restart
AfterPoll(s) == IF Alive(proxies[s].proc) THEN "w_loop" ELSE "w_restart"

\* nothing listens on the method's port (connection refused):
\* `except Exception: tries += 1`, then the poll
wrapper_refused(t) ==
  /\ th[t].pc = "w_call"
  /\ ~Listening(th[t].method)
  /\ th' = [th EXCEPT ![t].pc = AfterPoll(th[t].self), ![t].tries = @ + 1]
  /\ UNCHANGED shared
  /\ UNCHANGED offEd

\* ---- what the server answers when the analysis of a request raises
Methods == {"completions", "documentation", "definition_location",
            "check_syntax", "rename"}

\* where the exception comes from: "resource" is raised by _get_resource
\* (project_for, path_to_resource), "syntax" is rope's ModuleSyntaxError
\* and "other" any other Exception, both raised by the analysis itself
\* (jedi, rope, do_linting); check_syntax does not call _get_resource
Raises(m) == IF m = "check_syntax" THEN {"syntax", "other"}
             ELSE {"resource", "syntax", "other"}

\* the method of Server: "empty" is a normal return of an empty result,
\* "raise" an exception that leaves the method.
\*   completions: _get_resource is called before the try; the try catches
\*     ModuleSyntaxError and Exception and returns []
\*   documentation, definition_location: _get_resource before the try,
\*     which catches ModuleSyntaxError only
\*   check_syntax: the try catches Exception, but `codes` is then unbound
\*     and pickle.dumps(codes) raises UnboundLocalError
\*   rename: no try at all
serve(m, e) ==
  CASE m = "completions" -> IF e = "resource" THEN "raise" ELSE "empty"
    [] m \in {"documentation", "definition_location"} ->
         IF e = "syntax" THEN "empty" ELSE "raise"
    [] m = "check_syntax" -> "raise"
    [] m = "rename" -> "raise"

\* what the client gets: DebuggingServer._dispatch catches every Exception
\* and returns None; the dispatch of SimpleXMLRPCServer, used for Server,
\* turns an exception of the method into an xmlrpc Fault
dispatch(debug, m, e) ==
  IF debug THEN "empty"
  ELSE IF serve(m, e) = "raise" THEN "fault" ELSE "empty"

\* Proxy.restart starts server.py without --debug: the instance is Server
DebugMode == FALSE

\* the server answers the call of method m with a Fault because its analysis
\* raised e; the client raises xmlrpc.client.Fault:
\* `except Exception: tries += 1`, then the poll
wrapper_fault(t, m, e) ==
  /\ th[t].pc = "w_call"
  /\ Listening(th[t].method)
  /\ e \in Raises(m)
  /\ dispatch(DebugMode, m, e) = "fault"
  /\ th' = [th EXCEPT ![t].pc = AfterPoll(th[t].self), ![t].tries = @ + 1,
                      ![t].track = FALSE]
  /\ UNCHANGED shared
  /\ UNCHANGED offEd

\* `else: self.restart(); time.sleep(0.2)`
wrapper_restart(t, st) ==
  /\ th[t].pc = "w_restart"
  /\ restart(th[t].self, proxies[th[t].self].python, st)
  /\ th' = [th EXCEPT ![t].pc = "w_loop",
                      ![t].track = @ /\ st = "starting"]
  /\ UNCHANGED <<PROXIES, PROXY_LOCK, nProxy, removed>>
  /\ UNCHANGED offEd

\* that restart() raises: the exception leaves the wrapper
wrapper_restart_raise(t) ==
  /\ th[t].pc = "w_restart"
  /\ th' = [th EXCEPT ![t].pc = "done", ![t].out = "raised",
                      ![t].track = FALSE]
  /\ UNCHANGED shared
  /\ UNCHANGED offEd

\* the handler that called proxy_for and the proxy method returns
finish(t) ==
  /\ th[t].pc = "done"
  /\ th' = [th EXCEPT ![t] = IdleTh]
  /\ UNCHANGED shared
  /\ UNCHANGED offEd

\* ------------------------------------------------- Proxy.send_heartbeat
\* a pending timer of Proxy s fires on the async thread: `if self.proxy:`
send_heartbeat_fire(t, s) ==
  /\ t \in TimerThreads
  /\ th[t].pc = "idle"
  /\ timers[s] > 0
  /\ timers' = [timers EXCEPT ![s] = @ - 1]
  /\ th' = [th EXCEPT ![t] = IF proxies[s].proxy # 0
                             THEN [IdleTh EXCEPT !.pc = "hb_send", !.self = s]
                             ELSE IdleTh]
  /\ UNCHANGED <<PROXIES, PROXY_LOCK, proxies, nProxy, procs, nProc, launched, removed>>
  /\ UNCHANGED offEd

\* `self.proxy.heartbeat()`: request sent; None.heartbeat raises
\* AttributeError, which ends the callback
send_heartbeat_send(t) ==
  /\ th[t].pc = "hb_send"
  /\ LET c == proxies[th[t].self].proxy IN
     IF c = 0
     THEN th' = [th EXCEPT ![t] = IdleTh]
     ELSE th' = [th EXCEPT ![t].pc = "hb_call", ![t].method = c]
  /\ UNCHANGED shared
  /\ UNCHANGED offEd

\* heartbeat() returned: `self.set_heartbeat_timer()`
send_heartbeat_ok(t) ==
  /\ th[t].pc = "hb_call"
  /\ Listening(th[t].method)
  /\ timers' = [timers EXCEPT ![th[t].self] = @ + 1]
  /\ th' = [th EXCEPT ![t] = IdleTh]
  /\ UNCHANGED <<PROXIES, PROXY_LOCK, proxies, nProxy, procs, nProc, launched, removed>>
  /\ UNCHANGED offEd

\* heartbeat() raised (connection refused): the exception ends the
\* callback before set_heartbeat_timer
send_heartbeat_fail(t) ==
  /\ th[t].pc = "hb_call"
  /\ ~Listening(th[t].method)
  /\ th' = [th EXCEPT ![t] = IdleTh]
  /\ UNCHANGED shared
  /\ UNCHANGED offEd

\* ------------------------------------------------------------ Proxy.stop
\* the reference is kept
stop_proxy_keep(px, s) == px

\* Proxy.stop, first statement: `self.proxy = None`
stop_proxy(px, s) == [px EXCEPT ![s].proxy = 0]

\* Popen.terminate: a running process is ended; one that has ended already
\* is left as it is
terminate(pr, p) ==
  [pr EXCEPT ![p] = IF @ \in {"starting", "listening"} THEN "exited" ELSE @]

\* Proxy.stop on Proxy s as one call: the Proxy objects and the processes
\* after it
stop(s, px, pr) ==
  [proxies |-> stop_proxy(px, s), procs |-> terminate(pr, px[s].proc)]

\* -------------------------------------------- PythonStopServerCommand.run
\* `with PROXY_LOCK:` and the read of the setting
stop_enter(t, setting) ==
  /\ t \in StopThreads
  /\ th[t].pc = "idle"
  /\ PROXY_LOCK = "free"
  /\ PROXY_LOCK' = t
  /\ th' = [th EXCEPT ![t] = [IdleTh EXCEPT !.pc = "st_in",
                                            !.python = interpreter(setting)]]
  /\ UNCHANGED <<PROXIES, proxies, nProxy, procs, nProc, launched, timers, removed>>
  /\ UNCHANGED offEd

\* `proxy = PROXIES.get(python, None)`; `if proxy:` false ends the command;
\* otherwise Proxy.stop begins: `self.proxy = None`
stop_run(t) ==
  /\ th[t].pc = "st_in"
  /\ LET s == PROXIES[th[t].python] IN
     IF s = 0
     THEN /\ PROXY_LOCK' = "free"
          /\ th' = [th EXCEPT ![t] = IdleTh]
          /\ UNCHANGED proxies
     ELSE /\ proxies' = stop_proxy(proxies, s)
          /\ th' = [th EXCEPT ![t].pc = "st_term", ![t].self = s]
          /\ UNCHANGED PROXY_LOCK
  /\ UNCHANGED <<PROXIES, nProxy, procs, nProc, launched, timers, removed>>
  /\ UNCHANGED offEd

\* Proxy.stop: `self.proc.terminate()`; then `del PROXIES[python]` and the
\* end of the with block
stop_terminate(t) ==
  /\ th[t].pc = "st_term"
  /\ LET s == th[t].self
         p == proxies[s].proc IN
     /\ procs' = terminate(procs, p)
     /\ PROXIES' = [PROXIES EXCEPT ![th[t].python] = 0]
     /\ removed' = removed \cup {s}
  /\ PROXY_LOCK' = "free"
  /\ th' = [th EXCEPT ![t] = IdleTh]
  /\ UNCHANGED <<proxies, nProxy, nProc, launched, timers>>
  /\ UNCHANGED offEd

\* ------------------------------------------------------- server processes
\* XMLRPCServerThread.run: the server binds its port and serves
server_ready(p) ==
  /\ procs[p] = "starting"
  /\ procs' = [procs EXCEPT ![p] = "listening"]
  /\ UNCHANGED <<PROXIES, PROXY_LOCK, proxies, nProxy, nProc, launched, timers, th,
                 removed>>
  /\ UNCHANGED offEd

\* the process exits: killed from outside, or sys.exit() of the monitor loop
server_exit(p) ==
  /\ Alive(p)
  /\ procs' = [procs EXCEPT ![p] = "exited"]
  /\ UNCHANGED <<PROXIES, PROXY_LOCK, proxies, nProxy, nProc, launched, timers, th,
                 removed>>
  /\ UNCHANGED offEd

\* ======================================================================
\* RopeProjectMixin and RopeFunctionsMixin of server.py (SpecProject)
\* ======================================================================
\* the sentinel the editor sends as project path when the file has no
\* project folder; -1 in both sublime_python.py and server.py
NO_ROOT_PATH == "NO_ROOT_PATH"

\* the arguments of the requests
ProjectPaths == {NO_ROOT_PATH, "", "/proj"}
BufferIds == {"BUFFER:1"}
FilePaths == {"", "/proj/a.py"} \cup BufferIds
\* a source is the sequence of the names jedi proposes for it
Sources == {<<>>, <<"os", "self=">>}

\* `file_path.startswith("BUFFER:")`
IsBuffer(file_path) == file_path \in BufferIds

\* the strings that can be keys of self.projects
ProjectKeys == (ProjectPaths \ {NO_ROOT_PATH}) \cup FilePaths

\* tempfile.NamedTemporaryFile(delete=False).name of the n-th temp file
TmpNames == <<"/tmp/t1", "/tmp/t2", "/tmp/t3", "/tmp/t4", "/tmp/t5", "/tmp/t6">>
TmpName(n) == IF n <= Len(TmpNames) THEN TmpNames[n] ELSE "/tmp/t"

\* the state of a Server object as one value
ServerState == [projects |-> projects, buffer_tmpfile_map |-> buffer_tmpfile_map,
                tempfiles |-> tempfiles, contexts |-> contexts]

\* _create_temp_file(content): one more temp file; its name is returned by
\* TmpName(Len(P.tempfiles))
create_temp_file(P, content) == [P EXCEPT !.tempfiles = Append(@, content)]

\* _create_project / _create_single_file_project: one more rope Project;
\* it is contexts[Len(contexts)]
create_project(P, kind, path) ==
  [P EXCEPT !.contexts = Append(@, [kind |-> kind, path |-> path])]

\* project_for branches on emptiness of the project path
project_for_empty(P, project_path, file_path, source) ==
  IF IsBuffer(file_path)
  THEN IF P.projects[file_path] # 0
       THEN [P |-> P, project |-> P.projects[file_path],
             file_path |-> P.buffer_tmpfile_map[file_path], branch |-> "buffer"]
       ELSE LET P1 == create_temp_file(P, source)
                tf == TmpName(Len(P1.tempfiles))
                P2 == create_project(P1, "single", tf)
                id == Len(P2.contexts)
            IN [P |-> [P2 EXCEPT !.projects[file_path] = id,
                                 !.buffer_tmpfile_map[file_path] = tf],
                project |-> id, file_path |-> tf, branch |-> "buffer"]
  ELSE IF project_path = NO_ROOT_PATH \/ project_path = ""
  THEN IF P.projects[file_path] # 0
       THEN [P |-> P, project |-> P.projects[file_path], file_path |-> file_path,
             branch |-> "single"]
       ELSE IF file_path = ""
            THEN LET P1 == create_temp_file(P, source)
                     tf == TmpName(Len(P1.tempfiles))
                     P2 == create_project(P1, "single", tf)
                 IN [P |-> P2, project |-> Len(P2.contexts), file_path |-> tf,
                     branch |-> "single"]
            ELSE LET P2 == create_project(P, "single", file_path)
                     id == Len(P2.contexts)
                 IN [P |-> [P2 EXCEPT !.projects[file_path] = id],
                     project |-> id, file_path |-> file_path, branch |-> "single"]
  ELSE IF P.projects[project_path] # 0
       THEN [P |-> P, project |-> P.projects[project_path], file_path |-> file_path,
             branch |-> "project"]
       ELSE LET P2 == create_project(P, "project", project_path)
                id == Len(P2.contexts)
            IN [P |-> [P2 EXCEPT !.projects[project_path] = id],
                project |-> id, file_path |-> file_path, branch |-> "project"]

\* project_for that caches the project of a buffer, not its temp file
project_for_unmapped(P, project_path, file_path, source) ==
  IF IsBuffer(file_path)
  THEN IF P.projects[file_path] # 0
       THEN [P |-> P, project |-> P.projects[file_path],
             file_path |-> P.buffer_tmpfile_map[file_path], branch |-> "buffer"]
       ELSE LET P1 == create_temp_file(P, source)
                tf == TmpName(Len(P1.tempfiles))
                P2 == create_project(P1, "single", tf)
                id == Len(P2.contexts)
            IN [P |-> [P2 EXCEPT !.projects[file_path] = id],
                project |-> id, file_path |-> tf, branch |-> "buffer"]
  ELSE IF project_path = NO_ROOT_PATH
  THEN \* single file case
       IF P.projects[file_path] # 0
       THEN [P |-> P, project |-> P.projects[file_path], file_path |-> file_path,
             branch |-> "single"]
       ELSE IF file_path = ""
            THEN \* `if not file_path:` temp file and project, not stored
                 LET P1 == create_temp_file(P, source)
                     tf == TmpName(Len(P1.tempfiles))
                     P2 == create_project(P1, "single", tf)
                 IN [P |-> P2, project |-> Len(P2.contexts), file_path |-> tf,
                     branch |-> "single"]
            ELSE LET P2 == create_project(P, "single", file_path)
                     id == Len(P2.contexts)
                 IN [P |-> [P2 EXCEPT !.projects[file_path] = id],
                     project |-> id, file_path |-> file_path, branch |-> "single"]
  ELSE \* a real file with a project directory
       IF P.projects[project_path] # 0
       THEN [P |-> P, project |-> P.projects[project_path], file_path |-> file_path,
             branch |-> "project"]
       ELSE LET P2 == create_project(P, "project", project_path)
                id == Len(P2.contexts)
            IN [P |-> [P2 EXCEPT !.projects[project_path] = id],
                project |-> id, file_path |-> file_path, branch |-> "project"]

\* RopeProjectMixin.project_for(project_path, file_path, source) on server
\* state P: the state after it, the project and the file path it returns,
\* and (history) the branch it took
project_for(P, project_path, file_path, source) ==
  IF IsBuffer(file_path)
  THEN \* scratch buffer case
       IF P.projects[file_path] # 0
       THEN [P |-> P, project |-> P.projects[file_path],
             file_path |-> P.buffer_tmpfile_map[file_path], branch |-> "buffer"]
       ELSE LET P1 == create_temp_file(P, source)
                tf == TmpName(Len(P1.tempfiles))
                P2 == create_project(P1, "single", tf)
                id == Len(P2.contexts)
            IN [P |-> [P2 EXCEPT !.projects[file_path] = id,
                                 !.buffer_tmpfile_map[file_path] = tf],
                project |-> id, file_path |-> tf, branch |-> "buffer"]
  ELSE IF project_path = NO_ROOT_PATH
  THEN \* single file case
       IF P.projects[file_path] # 0
       THEN [P |-> P, project |-> P.projects[file_path], file_path |-> file_path,
             branch |-> "single"]
       ELSE IF file_path = ""
            THEN \* `if not file_path:` temp file and project, not stored
                 LET P1 == create_temp_file(P, source)
                     tf == TmpName(Len(P1.tempfiles))
                     P2 == create_project(P1, "single", tf)
                 IN [P |-> P2, project |-> Len(P2.contexts), file_path |-> tf,
                     branch |-> "single"]
            ELSE LET P2 == create_project(P, "single", file_path)
                     id == Len(P2.contexts)
                 IN [P |-> [P2 EXCEPT !.projects[file_path] = id],
                     project |-> id, file_path |-> file_path, branch |-> "single"]
  ELSE \* a real file with a project directory
       IF P.projects[project_path] # 0
       THEN [P |-> P, project |-> P.projects[project_path], file_path |-> file_path,
             branch |-> "project"]
       ELSE LET P2 == create_project(P, "project", project_path)
                id == Len(P2.contexts)
            IN [P |-> [P2 EXCEPT !.projects[project_path] = id],
                project |-> id, file_path |-> file_path, branch |-> "project"]

\* the content rope would read for the resource: the temp file's content
propose_from_resource(P, source, file_path, resource) ==
  LET n == CHOOSE i \in 0..Len(P.tempfiles) :
             (i = 0 /\ \A j \in 1..Len(P.tempfiles) : TmpName(j) # resource)
             \/ (i > 0 /\ TmpName(i) = resource)
  IN IF n = 0 THEN source ELSE P.tempfiles[n]

\* `jedi.Script(source, row, col, file_path).completions()`: the names jedi
\* proposes are those of the source it is given
propose(P, source, file_path, resource) == source

\* completions(source, project_path, file_path, loc): _get_resource, the
\* proposals of jedi, and the list built in the finally clause, which drops
\* the proposal named 'self='
completions(P, source, project_path, file_path) ==
  LET r == project_for(P, project_path, file_path, source)
      proposals == propose(r.P, source, file_path, r.file_path)
      kept == SelectSeq(proposals, LAMBDA name : name # "self=")
  IN [P |-> r.P, for |-> r,
      proposals |-> [i \in 1..Len(kept) |->
                       [proposal |-> <<kept[i], "type">>, insert |-> kept[i]]]]

\* report_changed(project_path, file_path): project_for is called without a
\* source (source = "") unless the project path is the sentinel
report_changed(P, project_path, file_path) ==
  IF project_path # NO_ROOT_PATH
  THEN project_for(P, project_path, file_path, <<>>)
  ELSE [P |-> P, project |-> 0, file_path |-> file_path, branch |-> "none"]

\* the key under which a request's context is kept: the buffer id, the file
\* path in single-file mode, the project root otherwise
KeyOf(project_path, file_path) ==
  IF IsBuffer(file_path) THEN <<"buffer", file_path>>
  ELSE IF project_path = NO_ROOT_PATH THEN <<"single", file_path>>
  ELSE <<"project", project_path>>

AllKeys == {"buffer", "single", "project"} \X ProjectKeys

NoRequest == [method |-> "none", project_path |-> "", file_path |-> "",
              project |-> 0, file_path_out |-> "", branch |-> "none",
              created |-> 0, prev |-> "none", same |-> FALSE]

\* RopeProjectMixin.__init__
PjInit ==
  /\ projects = [k \in ProjectKeys |-> 0]
  /\ buffer_tmpfile_map = [b \in BufferIds |-> ""]
  /\ tempfiles = <<>>
  /\ contexts = <<>>
  /\ first = [k \in AllKeys |-> 0]
  /\ made = [k \in AllKeys |-> 0]
  /\ last = NoRequest

\* the server has run project_for with result r for a request: the new
\* state and the history
Served(method, project_path, file_path, r) ==
  LET k == KeyOf(project_path, file_path)
      n == Len(r.P.contexts) - Len(contexts)
  IN /\ Len(r.P.contexts) <= MaxContext
     /\ Len(r.P.tempfiles) <= MaxTemp
     /\ projects' = r.P.projects
     /\ buffer_tmpfile_map' = r.P.buffer_tmpfile_map
     /\ tempfiles' = r.P.tempfiles
     /\ contexts' = r.P.contexts
     /\ first' = IF first[k] = 0 THEN [first EXCEPT ![k] = r.project] ELSE first
     /\ made' = [made EXCEPT ![k] = @ + n]
     /\ last' = [method |-> method, project_path |-> project_path,
                 file_path |-> file_path, project |-> r.project,
                 file_path_out |-> r.file_path, branch |-> r.branch,
                 created |-> n, prev |-> last.method,
                 same |-> (last.project_path = project_path
                           /\ last.file_path = file_path)]

\* the server serves completions(source, project_path, file_path, loc)
completions_request(source, project_path, file_path) ==
  /\ Served("completions", project_path, file_path,
            completions(ServerState, source, project_path, file_path).for)
  /\ UNCHANGED offPj

\* the server serves report_changed(project_path, file_path)
report_changed_request(project_path, file_path) ==
  /\ project_path # NO_ROOT_PATH
  /\ Served("report_changed", project_path, file_path,
            report_changed(ServerState, project_path, file_path))
  /\ UNCHANGED offPj

\* report_changed with the sentinel: nothing is done
report_changed_sentinel(file_path) ==
  /\ last' = [NoRequest EXCEPT !.method = "report_changed",
                               !.project_path = NO_ROOT_PATH,
                               !.file_path = file_path,
                               !.prev = last.method]
  /\ UNCHANGED <<projects, buffer_tmpfile_map, tempfiles, contexts, first, made>>
  /\ UNCHANGED offPj

\* ======================================================================
\* sublime_python_linting.py: check, parse_errors and the lint marks
\* (SpecLint)
\* ======================================================================
Views == {1, 2}
\* zero-based line numbers of a view
Lines0 == 0..(MaxLine - 1)

\* The findings a response can hold. level "none": the object has no level
\* attribute (the messages of pyflakes); offset -1: it has no offset; word is
\* message_args[0] of a pyflakes message; text is str(error).
Findings ==
  { [cls |-> "Pep8Error", level |-> "W", lineno |-> 3, offset |-> 79, word |-> "",
     text |-> "[W] PEP 8 (E501): line too long"],
    [cls |-> "Pep8Warning", level |-> "V", lineno |-> 1, offset |-> 0, word |-> "",
     text |-> "[V] PEP 8 (W291): trailing whitespace"],
    [cls |-> "OffsetError", level |-> "E", lineno |-> 1, offset |-> 3, word |-> "",
     text |-> "[E] 'invalid syntax'"],
    [cls |-> "UnusedImport", level |-> "none", lineno |-> 1, offset |-> -1,
     word |-> "os", text |-> "'os' imported but unused"],
    [cls |-> "ImportStarUsed", level |-> "none", lineno |-> 2, offset |-> -1,
     word |-> "m", text |-> "'from m import *' used; unable to detect undefined names"],
    [cls |-> "UndefinedName", level |-> "none", lineno |-> 2, offset |-> -1,
     word |-> "x", text |-> "undefined name 'x'"] }

\* what proxy.check_syntax returns: "none" is None (the call failed),
\* "garbled" a Binary that pickle.loads rejects, otherwise the pickled list
Responses ==
  {[kind |-> "none", errors |-> <<>>], [kind |-> "garbled", errors |-> <<>>]}
    \cup {[kind |-> "findings", errors |-> e] :
            e \in UNION {[1..n -> Findings] : n \in 0..MaxFindings}}

\* The text of the views: line 1 is "import os", line 2 is
\* "from m import *; x", line 3 a line of more than 79 characters without
\* an import or a name of the findings.
\* re.match(linematch, line_text) of underline_import: whether it matches,
\* and the start of its group `match` (the text after "import ")
linematch(lineno) ==
  IF lineno = 1 THEN [found |-> TRUE, offset |-> 7]
  ELSE IF lineno = 2 THEN [found |-> TRUE, offset |-> 14]
  ELSE [found |-> FALSE, offset |-> 0]

\* re.finditer(regex, line_text) filtered by wordmatch: the (start, length)
\* of the group `underline` of the matches whose group equals the word;
\* for an import the searched text is the group `match` of linematch
finditer(lineno, cls, word) ==
  IF lineno = 1 /\ cls = "UnusedImport" /\ word = "os" THEN << <<0, 2>> >>
  ELSE IF lineno = 2 /\ cls = "ImportStarUsed" THEN << <<0, 1>> >>
  ELSE IF lineno = 2 /\ cls = "UndefinedName" /\ word = "x" THEN << <<17, 1>> >>
  ELSE <<>>

\* the classes parse_errors underlines with underline_import
ImportClasses == {"UnusedImport", "ImportStarUsed"}

\* underline_regex that forgets the offset of the group `match`
underline_regex_line(lineno, cls, word) ==
  IF cls \in ImportClasses /\ ~linematch(lineno).found THEN <<>>
  ELSE finditer(lineno, cls, word)

\* underline_regex: the (start + offset, length) that it hands to
\* underline_range; nothing when linematch is given and does not match
underline_regex(lineno, cls, word) ==
  LET lm == IF cls \in ImportClasses THEN linematch(lineno)
            ELSE [found |-> TRUE, offset |-> 0]
      results == finditer(lineno, cls, word)
  IN IF ~lm.found THEN <<>>
     ELSE [i \in 1..Len(results) |->
             <<results[i][1] + lm.offset, results[i][2]>>]

\* underline_range that forgets `position += line.begin()`'s other summand,
\* the position: the regions start at the beginning of the line
underline_range_line(underlines, lineno, position, length) ==
  underlines \o [i \in 1..length |-> <<lineno - 1, i - 1>>]

\* underline_range(view, lineno, position, underlines, length): the regions
\* Region(line.begin() + position + i), written <<zero-based line, column>>
underline_range(underlines, lineno, position, length) ==
  underlines \o [i \in 1..length |-> <<lineno - 1, position + i - 1>>]

RECURSIVE underline_spans(_, _, _)
underline_spans(underlines, lineno, spans) ==
  IF spans = <<>> THEN underlines
  ELSE underline_spans(underline_range(underlines, lineno, Head(spans)[1],
                                       Head(spans)[2]),
                       lineno, Tail(spans))

\* add_message: `message[0].upper() + message[1:]`, then the trailing period
\* is removed; of the texts above only the lower-case one changes
add_message_text(text) ==
  IF text = "undefined name 'x'" THEN "Undefined name 'x'" ELSE text

\* add_message(lineno, lines, message, messages) on the map of one view
add_message(messages, lineno, text) ==
  [messages EXCEPT ![lineno - 1] = Append(@, add_message_text(text))]

\* the annotation state of one view
Annotations(v) ==
  [error_messages |-> error_messages[v],
   violation_messages |-> violation_messages[v],
   warning_messages |-> warning_messages[v],
   error_underlines |-> error_underlines[v],
   violation_underlines |-> violation_underlines[v],
   warning_underlines |-> warning_underlines[v],
   erroneous_lines |-> erroneous_lines[v],
   marks |-> marks[v]]

NoMessages == [l \in Lines0 |-> <<>>]
NoMarks == [warning |-> {}, illegal |-> {}, violation |-> {}]

\* ListWithPointer(data)
ListWithPointer(data) ==
  [set |-> TRUE, data |-> data, pointer |-> 0, direction |-> "FORWARD"]

\* no reset: the findings are added to what the maps and lists hold
Cleared_keep(A) == A

\* the maps and lists as check() resets them before parse_errors
Cleared(A) ==
  [A EXCEPT !.error_messages = NoMessages, !.violation_messages = NoMessages,
            !.warning_messages = NoMessages, !.error_underlines = <<>>,
            !.violation_underlines = <<>>, !.warning_underlines = <<>>]

\* the error levels error_level_mapper has an entry for
Levels == {"E", "W", "V"}

\* `messages, underlines = error_level_mapper.get(error_level)`: for a level
\* without an entry get() returns None and the unpacking raises TypeError
Raises_parse(error) ==
  (IF error.level = "none" THEN "W" ELSE error.level) \notin Levels

\* error_level_mapper: the message map and the underline list of a level
MessagesOf(level) == CASE level = "E" -> "error_messages"
                       [] level = "W" -> "warning_messages"
                       [] level = "V" -> "violation_messages"
UnderlinesOf(level) == CASE level = "E" -> "error_underlines"
                         [] level = "W" -> "warning_underlines"
                         [] level = "V" -> "violation_underlines"

\* pyflakes_ignore_import_* of the view's settings; True by default
ignore_star == TRUE

\* isinstance(error, (Pep8Error, Pep8Warning, OffsetError, PythonLintError)):
\* PythonError is a subclass of PythonLintError
OffsetClasses ==
  {"Pep8Error", "Pep8Warning", "OffsetError", "PythonLintError", "PythonError"}

\* the classes parse_errors underlines with underline_word; the classes
\* with their own regex (ImportShadowedByLoopVar, DuplicateArgument) are
\* not among the findings of the model. LateFutureImport gets no
\* underline, and any other class ("Oops, we missed an error type!") none
\* either. The tuple names ReturnOutsideFunction and
\* ReturnWithArgsInsideGenerator, which lib/pyflakes/messages.py does not
\* define; the module imports pyflakes as SublimePythonIDE.pyflakes, and the
\* model takes every name of the tuple to resolve there.
WordClasses ==
  {"RedefinedWhileUnused", "UndefinedName", "UndefinedExport", "UndefinedLocal",
   "UnusedVariable", "ReturnOutsideFunction", "ReturnWithArgsInsideGenerator",
   "RedefinedInListComp"}

\* the loop body with 'E' as the level of a finding without one
parse_error_default_error(A, error) ==
  LET error_level == IF error.level = "none" THEN "E" ELSE error.level
      m == MessagesOf(error_level)
      u == UnderlinesOf(error_level)
  IN IF error.cls = "ImportStarUsed" /\ ignore_star THEN A
     ELSE LET A1 == [A EXCEPT ![m] = add_message(@, error.lineno, error.text)]
          IN IF error.cls \in OffsetClasses
             THEN [A1 EXCEPT ![u] = underline_range(@, error.lineno, error.offset, 1)]
             ELSE IF error.cls \in WordClasses \cup ImportClasses
             THEN [A1 EXCEPT ![u] = underline_spans(@, error.lineno,
                                      underline_regex(error.lineno, error.cls,
                                                      error.word))]
             ELSE A1

\* the body of the loop of parse_errors for one finding
parse_error(A, error) ==
  LET error_level == IF error.level = "none" THEN "W" ELSE error.level
      m == MessagesOf(error_level)
      u == UnderlinesOf(error_level)
  IN IF error.cls = "ImportStarUsed" /\ ignore_star THEN A
     ELSE LET A1 == [A EXCEPT ![m] = add_message(@, error.lineno, error.text)]
          IN IF error.cls \in OffsetClasses
             THEN [A1 EXCEPT ![u] = underline_range(@, error.lineno, error.offset, 1)]
             ELSE IF error.cls \in WordClasses \cup ImportClasses
             THEN [A1 EXCEPT ![u] = underline_spans(@, error.lineno,
                                      underline_regex(error.lineno, error.cls,
                                                      error.word))]
             ELSE A1

\* the comparison function handed to cmp_to_key:
\* `lambda a, b: a.lineno < b.lineno`, a bool, that is 1 or 0
cmp(a, b) == IF a.lineno < b.lineno THEN 1 ELSE 0

\* the key objects of cmp_to_key compare by `mycmp(self.obj, other.obj) < 0`,
\* the only comparison list.sort uses
key_lt(a, b) == cmp(a, b) < 0

\* list.sort on a list shorter than 64 elements is a stable insertion sort:
\* each element is inserted into the sorted prefix before the first element
\* that it is less than, after all others
RECURSIVE insert(_, _)
insert(sorted, x) ==
  IF sorted = <<>> THEN <<x>>
  ELSE IF key_lt(x, Head(sorted)) THEN <<x>> \o sorted
  ELSE <<Head(sorted)>> \o insert(Tail(sorted), x)

RECURSIVE sort(_)
sort(errors) ==
  IF errors = <<>> THEN <<>>
  ELSE insert(sort(SubSeq(errors, 1, Len(errors) - 1)), errors[Len(errors)])

\* the loop of parse_errors; the finding whose level has no rule ends it
RECURSIVE parse_loop(_, _)
parse_loop(A, errors) ==
  IF errors = <<>> \/ Raises_parse(Head(errors)) THEN A
  ELSE parse_loop(parse_error(A, Head(errors)), Tail(errors))

\* parse_errors(view, errors, lines, vid):
\* errors.sort(key=cmp_to_key(lambda a, b: a.lineno < b.lineno)), then the
\* loop over the sorted list
parse_errors(A, errors) == parse_loop(A, sort(errors))

\* the keys of a message map
KeysOf(messages) == {l \in Lines0 : messages[l] # <<>>}

\* sorted(set(...)) of a set of lines
RECURSIVE Sorted(_)
Sorted(S) ==
  IF S = {} THEN <<>>
  ELSE LET lo == CHOOSE x \in S : \A y \in S : x <= y
       IN <<lo>> \o Sorted(S \ {lo})

\* _update_lint_marks: _erase_lint_marks, then the outlines of _get_outlines
\* are added if the line set is not empty
update_lint_marks(A, lines) ==
  IF lines = {} THEN NoMarks
  ELSE [warning |-> KeysOf(A.warning_messages),
        illegal |-> KeysOf(A.error_messages),
        violation |-> KeysOf(A.violation_messages)]

\* the line set parse_errors fills: add_message adds the line of every
\* message, underline_regex the line of every finding it looks at
LinesOf(A) ==
  KeysOf(A.error_messages) \cup KeysOf(A.violation_messages)
    \cup KeysOf(A.warning_messages)

\* check(view): whether the `except Exception` of its outer try runs, that
\* is, whether pickle.loads or parse_errors raised ("caught"), or the try
\* block ran to its end ("done"). Nothing after the call of check_syntax is
\* outside that try block.
check_outcome(response) ==
  IF response.kind = "garbled" THEN "caught"
  ELSE IF \E i \in 1..Len(response.errors) : Raises_parse(response.errors[i])
       THEN "caught"
       ELSE "done"

\* a check that resets the maps and lists before it unpickles
check_reset_first(A, response) ==
  IF response.kind = "garbled" THEN Cleared(A)
  ELSE LET A1 == parse_errors(Cleared(A), response.errors)
           A2 == [A1 EXCEPT !.erroneous_lines = ListWithPointer(Sorted(LinesOf(A1)))]
       IN IF check_outcome(response) = "caught" THEN A1
          ELSE [A2 EXCEPT !.marks = update_lint_marks(A2, LinesOf(A1))]

\* check(view) from the response on: the annotation state of the view after
\* it. pickle.loads of a garbled response raises before anything is reset;
\* None is falsy, so neither pickle.loads nor parse_errors runs for it, and
\* the rest of check runs as for an empty list. When parse_errors raises,
\* the outer except ends the check: the maps and lists stay as parse_errors
\* left them, erroneous_lines and the marks as they were before the check
check(A, response) ==
  IF response.kind = "garbled" THEN A
  ELSE LET errors == IF response.kind = "none" THEN <<>> ELSE response.errors
           A1 == parse_errors(Cleared(A), errors)
           A2 == [A1 EXCEPT !.erroneous_lines = ListWithPointer(Sorted(LinesOf(A1)))]
       IN IF check_outcome(response) = "caught" THEN A1
          ELSE [A2 EXCEPT !.marks = update_lint_marks(A2, LinesOf(A1))]

\* the annotation state of a view that no check has touched
Unchecked ==
  [error_messages |-> NoMessages, violation_messages |-> NoMessages,
   warning_messages |-> NoMessages, error_underlines |-> <<>>,
   violation_underlines |-> <<>>, warning_underlines |-> <<>>,
   erroneous_lines |-> [set |-> FALSE, data |-> <<>>, pointer |-> 0,
                        direction |-> "FORWARD"],
   marks |-> NoMarks]

\* next() that stops at the last element instead of wrapping
next_stop(L) ==
  LET n == Len(L.data)
      p == IF L.direction = "BACKWARD" THEN (L.pointer + 1) % n ELSE L.pointer
  IN IF n = 0
     THEN [L |-> [L EXCEPT !.direction = "FORWARD"], result |-> -1,
           raised |-> TRUE]
     ELSE [L |-> [L EXCEPT !.direction = "FORWARD",
                           !.pointer = IF p + 1 < n THEN p + 1 ELSE p],
           result |-> L.data[p + 1], raised |-> FALSE]

\* next() without the extra step after a change of direction
next_single(L) ==
  LET n == Len(L.data)
      p == L.pointer
  IN IF n = 0
     THEN [L |-> [L EXCEPT !.direction = "FORWARD"], result |-> -1,
           raised |-> TRUE]
     ELSE [L |-> [L EXCEPT !.direction = "FORWARD", !.pointer = (p + 1) % n],
           result |-> L.data[p + 1], raised |-> FALSE]

\* ListWithPointer.next: the list after the call, the element returned and
\* whether the call raised. On an empty list __getitem__ raises IndexError,
\* or `% len(self)` ZeroDivisionError after the direction was set.
next(L) ==
  LET n == Len(L.data)
      p == IF L.direction = "BACKWARD" THEN (L.pointer + 1) % n ELSE L.pointer
  IN IF n = 0
     THEN [L |-> [L EXCEPT !.direction = "FORWARD"], result |-> -1,
           raised |-> TRUE]
     ELSE [L |-> [L EXCEPT !.direction = "FORWARD", !.pointer = (p + 1) % n],
           result |-> L.data[p + 1], raised |-> FALSE]

\* previous() without the extra step after a change of direction
previous_single(L) ==
  LET n == Len(L.data)
      p == L.pointer
  IN IF n = 0
     THEN [L |-> [L EXCEPT !.direction = "BACKWARD"], result |-> -1,
           raised |-> TRUE]
     ELSE [L |-> [L EXCEPT !.direction = "BACKWARD", !.pointer = (p - 1) % n],
           result |-> L.data[((p - 1) % n) + 1], raised |-> FALSE]

\* ListWithPointer.previous; on an empty list `% len(self)` raises
\* ZeroDivisionError, after the direction was set if it was FORWARD
previous(L) ==
  LET n == Len(L.data)
      p == IF L.direction = "FORWARD" THEN (L.pointer - 1) % n ELSE L.pointer
  IN IF n = 0
     THEN [L |-> [L EXCEPT !.direction = "BACKWARD"], result |-> -1,
           raised |-> TRUE]
     ELSE [L |-> [L EXCEPT !.direction = "BACKWARD", !.pointer = (p - 1) % n],
           result |-> L.data[((p - 1) % n) + 1], raised |-> FALSE]

\* the history of a list on which nothing was called yet
NoNav ==
  [calls |-> 0, nexts |-> TRUE, op |-> "", result |-> -1, raised |-> FALSE,
   prevOp |-> "", prevResult |-> -1]

\* the history after a call of op that returned r
Called(h, op, r) ==
  [calls |-> IF h.calls < MaxCalls THEN h.calls + 1 ELSE MaxCalls,
   nexts |-> h.nexts /\ op = "next", op |-> op, result |-> r.result,
   raised |-> r.raised, prevOp |-> h.op, prevResult |-> h.result]

\* PythonNextErrorCommand.run / PythonPreviousErrorCommand.run on the active
\* view v: r is the outcome of next() or previous() on erroneous_lines[vid];
\* the lookup raises KeyError for a view without an entry. open_file moves
\* the view to the line returned.
error_command(v, op, r) ==
  /\ IF ~erroneous_lines[v].set
     THEN /\ nav' = [nav EXCEPT ![v].op = op, ![v].raised = TRUE]
          /\ UNCHANGED <<erroneous_lines, cursor>>
     ELSE /\ erroneous_lines' = [erroneous_lines EXCEPT ![v] = r.L]
          /\ nav' = [nav EXCEPT ![v] = Called(@, op, r)]
          /\ cursor' = IF r.raised THEN cursor
                       ELSE [cursor EXCEPT ![v] = r.result]
  /\ UNCHANGED <<error_messages, violation_messages, warning_messages,
                 error_underlines, violation_underlines, warning_underlines,
                 marks, ltLast>>
  /\ UNCHANGED offLt

PythonNextErrorCommand(v) == error_command(v, "next", next(erroneous_lines[v]))

PythonPreviousErrorCommand(v) ==
  error_command(v, "previous", previous(erroneous_lines[v]))

LtInit ==
  /\ cursor = [v \in Views |-> 0]
  /\ nav = [v \in Views |-> NoNav]
  /\ error_messages = [v \in Views |-> NoMessages]
  /\ violation_messages = [v \in Views |-> NoMessages]
  /\ warning_messages = [v \in Views |-> NoMessages]
  /\ error_underlines = [v \in Views |-> <<>>]
  /\ violation_underlines = [v \in Views |-> <<>>]
  /\ warning_underlines = [v \in Views |-> <<>>]
  /\ erroneous_lines = [v \in Views |-> [set |-> FALSE, data |-> <<>>,
                                         pointer |-> 0, direction |-> "FORWARD"]]
  /\ marks = [v \in Views |-> NoMarks]
  /\ ltLast = [view |-> 0, kind |-> "", errors |-> <<>>, outcome |-> "",
               had |-> FALSE, flip |-> FALSE]

\* a handler of PythonLintingListener runs check(view) and check_syntax
\* returns `response`
check_view(v, response) ==
  \E A \in {check(Annotations(v), response)} :
  /\ error_messages' = [error_messages EXCEPT ![v] = A.error_messages]
  /\ violation_messages' = [violation_messages EXCEPT ![v] = A.violation_messages]
  /\ warning_messages' = [warning_messages EXCEPT ![v] = A.warning_messages]
  /\ error_underlines' = [error_underlines EXCEPT ![v] = A.error_underlines]
  /\ violation_underlines' = [violation_underlines EXCEPT ![v] = A.violation_underlines]
  /\ warning_underlines' = [warning_underlines EXCEPT ![v] = A.warning_underlines]
  /\ erroneous_lines' = [erroneous_lines EXCEPT ![v] = A.erroneous_lines]
  /\ marks' = [marks EXCEPT ![v] = A.marks]
  /\ ltLast' = [view |-> v, kind |-> response.kind, errors |-> response.errors,
                outcome |-> check_outcome(response),
                had |-> erroneous_lines[v].data # <<>>, flip |-> ~ltLast.flip]
  /\ nav' = IF check_outcome(response) = "caught"
            THEN nav ELSE [nav EXCEPT ![v] = NoNav]
  /\ UNCHANGED cursor
  /\ UNCHANGED offLt

\* ======================================================================
\* one call through Proxy.__getattr__.wrapper and its worker (SpecCall)
\* ======================================================================
IdleWrapper == [pc |-> "idle", attr |-> "", tries |-> 0, result |-> "none"]

\* the Proxy after its constructor: restart() has launched the process and
\* made the ServerProxy; nothing is on the wire
ClInit ==
  /\ wrapper = IdleWrapper
  /\ worker = "starting"
  /\ wire = "none"
  /\ ran = 0

\* wrapper(*args) for the method attr: self.proxy is set, so
\* `method = getattr(self.proxy, attr); result = None; tries = 0`
call_begin(attr) ==
  /\ wrapper.pc = "idle"
  /\ wrapper' = [IdleWrapper EXCEPT !.pc = "loop", !.attr = attr]
  /\ ran' = 0
  /\ UNCHANGED <<worker, wire>>
  /\ UNCHANGED offCl

\* `while tries < RETRY_CONNECTION_LIMIT: result = method(*args)`: the
\* request is sent; the connection is refused when no worker listens
call_send ==
  /\ wrapper.pc = "loop"
  /\ wrapper.tries < RETRY_CONNECTION_LIMIT
  /\ wrapper' = [wrapper EXCEPT !.pc = "call"]
  /\ wire' = IF worker = "listening" THEN "request" ELSE "error"
  /\ UNCHANGED <<worker, ran>>
  /\ UNCHANGED offCl

\* the loop condition fails: `return result` with result = None
call_giveup ==
  /\ wrapper.pc = "loop"
  /\ wrapper.tries >= RETRY_CONNECTION_LIMIT
  /\ wrapper' = [wrapper EXCEPT !.pc = "done", !.result = "none"]
  /\ UNCHANGED <<worker, wire, ran>>
  /\ UNCHANGED offCl

\* the worker runs the method of the request: it returns (e = "none"), or
\* its analysis raises e and the Server answers as dispatch says
worker_serve(e) ==
  /\ wire = "request"
  /\ worker = "listening"
  /\ e \in Raises(wrapper.attr) \cup {"none"}
  /\ ran' = ran + 1
  /\ wire' = IF e # "none" /\ dispatch(DebugMode, wrapper.attr, e) = "fault"
             THEN "fault" ELSE "result"
  /\ UNCHANGED <<wrapper, worker>>
  /\ UNCHANGED offCl

\* XMLRPCServerThread.run: the worker binds its port and serves
worker_ready ==
  /\ worker = "starting"
  /\ worker' = "listening"
  /\ UNCHANGED <<wrapper, wire, ran>>
  /\ UNCHANGED offCl

\* the worker process exits: killed from outside, or sys.exit() of the
\* monitor loop, which does not wait for the daemon thread that serves the
\* request. The connection of a request that got no answer yet is closed.
worker_exit ==
  /\ worker \in {"starting", "listening"}
  /\ worker' = "exited"
  /\ wire' = IF wire \in {"request", "result", "fault"} THEN "error" ELSE wire
  /\ UNCHANGED <<wrapper, ran>>
  /\ UNCHANGED offCl

\* method(*args) returns the worker's result: `break; return result`
call_ok ==
  /\ wrapper.pc = "call"
  /\ wire = "result"
  /\ wrapper' = [wrapper EXCEPT !.pc = "done", !.result = "ok"]
  /\ wire' = "none"
  /\ UNCHANGED <<worker, ran>>
  /\ UNCHANGED offCl

\* method(*args) raises, a Fault or a transport error:
\* `except Exception: tries += 1`, then `if self.proc.poll() is None:` the
\* retry in place, else restart(), which launches a new worker
call_except ==
  /\ wrapper.pc = "call"
  /\ wire \in {"fault", "error"}
  /\ wrapper' = [wrapper EXCEPT !.pc = "loop", !.tries = @ + 1]
  /\ wire' = "none"
  /\ worker' = IF worker = "exited" THEN "starting" ELSE worker
  /\ UNCHANGED ran
  /\ UNCHANGED offCl

\* the caller has the result
call_return ==
  /\ wrapper.pc = "done"
  /\ wrapper' = IdleWrapper
  /\ UNCHANGED <<worker, wire, ran>>
  /\ UNCHANGED offCl

\* ======================================================================
\* PythonOrganizeImportsOnSave and PythonOrganizeImports (SpecSave)
\* ======================================================================
\* Sublime runs the handlers and commands of the plugin on its main thread;
\* view.run_command returns when the command and the handlers of the events
\* it caused have returned, which is what on_post_save relies on ("since
\* the refactoring itself calls save ... we would enter an infinite
\* recursion"). A call in progress is a frame [fn, pc] of the stack.
Frame(fn, pc) == [fn |-> fn, pc |-> pc]
Top == stack[Len(stack)]
Pop(st) == SubSeq(st, 1, Len(st) - 1)
SetTop(st, pc) == [st EXCEPT ![Len(st)].pc = pc]

SvInit ==
  /\ post_save_is_on = TRUE
  /\ stack = <<>>
  /\ view = [dirty |-> FALSE, file_name |-> TRUE, setting |-> FALSE]
  /\ svLast = [skipped |-> FALSE, raised |-> FALSE]

\* on_post_save goes on to the command whatever the flag says
post_save_enters_always(setting, is_on) == setting

\* `if view.settings().get("python_organize_imports_on_save") is True:` and
\* `if self._post_save_is_on:`
post_save_enters(setting, is_on) == setting /\ is_on

\* `finally: self._post_save_is_on = True`
post_save_leaves(is_on) == TRUE

\* the save command on a view with a file name: the view is written and
\* on_post_save(view) is called
save(st) == Append(st, Frame("on_post_save", "test"))

\* the user types into the view
user_edit ==
  /\ stack = <<>>
  /\ view' = [view EXCEPT !.dirty = TRUE]
  /\ UNCHANGED <<post_save_is_on, stack, svLast>>
  /\ UNCHANGED offSv

\* the project setting python_organize_imports_on_save is changed
user_setting(b) ==
  /\ stack = <<>>
  /\ view' = [view EXCEPT !.setting = b]
  /\ UNCHANGED <<post_save_is_on, stack, svLast>>
  /\ UNCHANGED offSv

\* a new view without a file, or one of a file
user_open(named) ==
  /\ stack = <<>>
  /\ view' = [view EXCEPT !.file_name = named, !.dirty = FALSE]
  /\ UNCHANGED <<post_save_is_on, stack, svLast>>
  /\ UNCHANGED offSv

\* the user saves the view
user_save ==
  /\ stack = <<>>
  /\ view.file_name
  /\ view' = [view EXCEPT !.dirty = FALSE]
  /\ stack' = save(stack)
  /\ UNCHANGED <<post_save_is_on, svLast>>
  /\ UNCHANGED offSv

\* the user runs the python_organize_imports command
user_organize ==
  /\ stack = <<>>
  /\ stack' = <<Frame("run", "start")>>
  /\ UNCHANGED <<post_save_is_on, view, svLast>>
  /\ UNCHANGED offSv

\* on_post_save(view): the two tests; then `self._post_save_is_on = False`
\* and `view.run_command("python_organize_imports")`
on_post_save_test ==
  /\ stack # <<>>
  /\ Top = Frame("on_post_save", "test")
  /\ IF post_save_enters(view.setting, post_save_is_on)
     THEN /\ Len(stack) < MaxDepth
          /\ post_save_is_on' = FALSE
          /\ stack' = Append(SetTop(stack, "command"), Frame("run", "start"))
          /\ UNCHANGED svLast
     ELSE /\ stack' = Pop(stack)
          /\ svLast' = [svLast EXCEPT !.skipped = @ \/ (view.setting /\ ~post_save_is_on)]
          /\ UNCHANGED post_save_is_on
  /\ UNCHANGED view
  /\ UNCHANGED offSv

\* the command has returned or raised: the finally clause
on_post_save_finally ==
  /\ stack # <<>>
  /\ Top = Frame("on_post_save", "command")
  /\ post_save_is_on' = post_save_leaves(post_save_is_on)
  /\ stack' = Pop(stack)
  /\ UNCHANGED <<view, svLast>>
  /\ UNCHANGED offSv

\* PythonOrganizeImports.run: `if self.view.is_dirty(): run_command("save")`;
\* the save of a view without a file name writes nothing
run_start ==
  /\ stack # <<>>
  /\ Top = Frame("run", "start")
  /\ IF view.dirty /\ view.file_name
     THEN /\ Len(stack) < MaxDepth
          /\ view' = [view EXCEPT !.dirty = FALSE]
          /\ stack' = save(SetTop(stack, "body"))
     ELSE /\ stack' = SetTop(stack, "body")
          /\ UNCHANGED view
  /\ UNCHANGED <<post_save_is_on, svLast>>
  /\ UNCHANGED offSv

\* whether an on_post_save handler is running
InHandler(st) == \E i \in 1..Len(st) : st[i].fn = "on_post_save"

\* `if self.view.file_name():` and the body. outcome: proxy_for returned
\* None ("noproxy"); organize_imports returned the organized source
\* ("organized"), which is put into the view and saved; organize_imports
\* returned None, which view.replace rejects, or proxy_for or the call
\* raised ("raise")
run_body(outcome) ==
  /\ stack # <<>>
  /\ Top = Frame("run", "body")
  /\ IF ~view.file_name \/ outcome = "noproxy"
     THEN /\ stack' = Pop(stack)
          /\ UNCHANGED <<view, svLast>>
     ELSE IF outcome = "organized"
     THEN /\ Len(stack) < MaxDepth
          /\ view' = [view EXCEPT !.dirty = FALSE]
          /\ stack' = save(SetTop(stack, "saved"))
          /\ UNCHANGED svLast
     ELSE /\ stack' = Pop(stack)
          /\ svLast' = [svLast EXCEPT !.raised = @ \/ InHandler(stack)]
          /\ UNCHANGED view
  /\ UNCHANGED post_save_is_on
  /\ UNCHANGED offSv

\* the last save has returned: the command returns
run_end ==
  /\ stack # <<>>
  /\ Top = Frame("run", "saved")
  /\ stack' = Pop(stack)
  /\ UNCHANGED <<post_save_is_on, view, svLast>>
  /\ UNCHANGED offSv

\* ------------------------------------------------------------ specification
\* Spec and SpecRegistry keep no time
HBOff == /\ now = 0 /\ last_heartbeat = -1 /\ wake = -1 /\ serverSt = "off"
         /\ busy = 0 /\ hbTimer = -1 /\ hbWait = FALSE
         /\ sender = "off" /\ exitAt = -1

EdInit ==
  /\ PROXIES = [k \in Keys |-> 0]
  /\ PROXY_LOCK = "free"
  /\ proxies = [s \in ProxyIds |-> NoProxy]
  /\ nProxy = 0
  /\ procs = [p \in ProcIds |-> "none"]
  /\ nProc = 0
  /\ launched = [p \in ProcIds |-> 0]
  /\ timers = [s \in ProxyIds |-> 0]
  /\ th = [t \in Threads |-> IdleTh]
  /\ removed = {}

Init == EdInit /\ HBOff /\ PjInit /\ LtInit /\ ClInit /\ SvInit

Next ==
  \/ \E t \in Threads, setting \in Settings : proxy_for_enter(t, setting)
  \/ \E t \in Threads : proxy_for_hit(t)
  \/ \E t \in Threads : proxy_for_miss(t)
  \/ \E t \in Threads, st \in {"starting", "crashed"} :
        proxy_for_construct(t, st)
  \/ \E t \in Threads : proxy_for_raise(t)
  \/ \E t \in Threads : wrapper_check(t)
  \/ \E t \in Threads, st \in {"starting", "crashed"} :
        wrapper_check_restart(t, st)
  \/ \E t \in Threads : wrapper_check_raise(t)
  \/ \E t \in Threads : wrapper_bind(t)
  \/ \E t \in Threads : wrapper_send(t)
  \/ \E t \in Threads : wrapper_giveup(t)
  \/ \E t \in Threads : wrapper_ok(t)
  \/ \E t \in Threads : wrapper_refused(t)
  \/ \E t \in Threads, m \in Methods : \E e \in Raises(m) :
        wrapper_fault(t, m, e)
  \/ \E t \in Threads, st \in {"starting", "crashed"} :
        wrapper_restart(t, st)
  \/ \E t \in Threads : wrapper_restart_raise(t)
  \/ \E t \in Threads : finish(t)
  \/ \E t \in Threads, s \in ProxyIds : send_heartbeat_fire(t, s)
  \/ \E t \in Threads : send_heartbeat_send(t)
  \/ \E t \in Threads : send_heartbeat_ok(t)
  \/ \E t \in Threads : send_heartbeat_fail(t)
  \/ \E t \in Threads, setting \in Settings : stop_enter(t, setting)
  \/ \E t \in Threads : stop_run(t)
  \/ \E t \in Threads : stop_terminate(t)
  \/ \E p \in ProcIds : server_ready(p)
  \/ \E p \in ProcIds : server_exit(p)

Spec == Init /\ [][Next]_vars

\* The registry with views of two interpreters; server processes end only
\* by Proxy.stop here.
NextRegistry ==
  \/ \E t \in Threads, setting \in Settings2 : proxy_for_enter(t, setting)
  \/ \E t \in Threads : proxy_for_hit(t)
  \/ \E t \in Threads : proxy_for_miss(t)
  \/ \E t \in Threads, st \in {"starting"} :
        proxy_for_construct(t, st)
  \/ \E t \in Threads : proxy_for_raise(t)
  \/ \E t \in Threads : wrapper_check(t)
  \/ \E t \in Threads, st \in {"starting"} :
        wrapper_check_restart(t, st)
  \/ \E t \in Threads : wrapper_check_raise(t)
  \/ \E t \in Threads : wrapper_bind(t)
  \/ \E t \in Threads : wrapper_send(t)
  \/ \E t \in Threads : wrapper_giveup(t)
  \/ \E t \in Threads : wrapper_ok(t)
  \/ \E t \in Threads : wrapper_refused(t)
  \/ \E t \in Threads, m \in Methods : \E e \in Raises(m) :
        wrapper_fault(t, m, e)
  \/ \E t \in Threads, st \in {"starting"} :
        wrapper_restart(t, st)
  \/ \E t \in Threads : wrapper_restart_raise(t)
  \/ \E t \in Threads : finish(t)
  \/ \E t \in Threads, s \in ProxyIds : send_heartbeat_fire(t, s)
  \/ \E t \in Threads : send_heartbeat_send(t)
  \/ \E t \in Threads : send_heartbeat_ok(t)
  \/ \E t \in Threads : send_heartbeat_fail(t)
  \/ \E t \in Threads, setting \in Settings2 : stop_enter(t, setting)
  \/ \E t \in Threads : stop_run(t)
  \/ \E t \in Threads : stop_terminate(t)
  \/ \E p \in ProcIds : server_ready(p)


SpecRegistry == Init /\ [][NextRegistry]_vars

\* The interpreter the shell of Popen(..., shell=True) runs for a registry
\* key: the link resolves to the default interpreter.
RealInterpreter(k) == IF k = "python_link" THEN "python" ELSE k

\* proxy_for and the calls through the Proxy it returns, for views that name
\* the default interpreter directly and through the link; no process dies.
NextAlias ==
  \/ \E t \in Threads, setting \in SettingsAlias : proxy_for_enter(t, setting)
  \/ \E t \in Threads : proxy_for_hit(t)
  \/ \E t \in Threads : proxy_for_miss(t)
  \/ \E t \in Threads, st \in {"starting"} : proxy_for_construct(t, st)
  \/ \E t \in Threads : wrapper_check(t)
  \/ \E t \in Threads : wrapper_bind(t)
  \/ \E t \in Threads : wrapper_send(t)
  \/ \E t \in Threads : wrapper_giveup(t)
  \/ \E t \in Threads : wrapper_ok(t)
  \/ \E t \in Threads : wrapper_refused(t)
  \/ \E t \in Threads : finish(t)
  \/ \E p \in ProcIds : server_ready(p)

SpecAlias == Init /\ [][NextAlias]_vars

\* ======================================================================
\* SpecHB: one Proxy and its server process, with time in seconds.
\* now = 0 is the moment restart() has launched the process and armed the
\* heartbeat timer.
\* ======================================================================
HBInit ==
  /\ EdInit
  /\ PjInit
  /\ LtInit
  /\ ClInit
  /\ SvInit
  /\ now = 0 /\ last_heartbeat = -1 /\ wake = -1 /\ serverSt = "starting"
  /\ busy = 0 /\ hbTimer = HEARTBEAT_FREQUENCY /\ hbWait = FALSE
  /\ sender = "firing" /\ exitAt = -1

\* the heartbeat sender's periodic chain is alive: a timer is pending or a
\* heartbeat call has not returned
ChainAlive == hbTimer >= 0 \/ hbWait

\* server.py __main__ and XMLRPCServerThread.run: the server thread binds
\* and registers Server(), whose HeartBeatMixin.__init__ calls heartbeat();
\* the main thread enters `time.sleep(HEARTBEAT_TIMEOUT)`
server_start ==
  /\ serverSt = "starting"
  /\ serverSt' = "running"
  /\ last_heartbeat' = now
  /\ wake' = now + HEARTBEAT_TIMEOUT
  /\ UNCHANGED <<now, busy, hbTimer, hbWait, sender, exitAt>>
  /\ UNCHANGED offHB

\* the monitor compares against twice the timeout
monitor_wake_late ==
  /\ serverSt = "running"
  /\ wake = now
  /\ IF now - last_heartbeat > HEARTBEAT_TIMEOUT + HEARTBEAT_TIMEOUT
     THEN /\ serverSt' = "terminated" /\ exitAt' = now /\ busy' = 0
          /\ UNCHANGED wake
     ELSE /\ wake' = now + HEARTBEAT_TIMEOUT
          /\ UNCHANGED <<serverSt, exitAt, busy>>
  /\ UNCHANGED <<now, last_heartbeat, hbTimer, hbWait, sender>>
  /\ UNCHANGED offHB

\* the monitor never exits: every wake-up starts the next sleep
monitor_wake_never ==
  /\ serverSt = "running"
  /\ wake = now
  /\ wake' = now + HEARTBEAT_TIMEOUT
  /\ UNCHANGED <<now, last_heartbeat, serverSt, busy, hbTimer, hbWait, sender, exitAt>>
  /\ UNCHANGED offHB

\* the monitor exits as soon as the clock is HEARTBEAT_TIMEOUT old
monitor_wake_ge ==
  /\ serverSt = "running"
  /\ wake = now
  /\ IF now - last_heartbeat >= HEARTBEAT_TIMEOUT
     THEN /\ serverSt' = "terminated" /\ exitAt' = now /\ busy' = 0
          /\ UNCHANGED wake
     ELSE /\ wake' = now + HEARTBEAT_TIMEOUT
          /\ UNCHANGED <<serverSt, exitAt, busy>>
  /\ UNCHANGED <<now, last_heartbeat, hbTimer, hbWait, sender>>
  /\ UNCHANGED offHB

\* the monitor loop: the sleep ends;
\* `if time.time() - last_heartbeat > HEARTBEAT_TIMEOUT: sys.exit()`
monitor_wake ==
  /\ serverSt = "running"
  /\ wake = now
  /\ IF now - last_heartbeat > HEARTBEAT_TIMEOUT
     THEN /\ serverSt' = "terminated" /\ exitAt' = now /\ busy' = 0
          /\ UNCHANGED wake
     ELSE /\ wake' = now + HEARTBEAT_TIMEOUT
          /\ UNCHANGED <<serverSt, exitAt, busy>>
  /\ UNCHANGED <<now, last_heartbeat, hbTimer, hbWait, sender>>
  /\ UNCHANGED offHB

\* Proxy.send_heartbeat: the timer fires, `self.proxy.heartbeat()` is sent.
\* A server that does not listen refuses the connection: the exception ends
\* the callback and no timer is set again.
hb_fire ==
  /\ sender = "firing"
  /\ hbTimer = 0
  /\ hbTimer' = -1
  /\ hbWait' = (serverSt = "running")
  /\ UNCHANGED <<now, last_heartbeat, wake, serverSt, busy, sender, exitAt>>
  /\ UNCHANGED offHB

\* the single-threaded SimpleXMLRPCServer gets to the heartbeat request:
\* HeartBeatMixin.heartbeat sets the clock; send_heartbeat then sets the
\* next timer
hb_serve ==
  /\ hbWait
  /\ serverSt = "running"
  /\ busy = 0
  /\ last_heartbeat' = now
  /\ hbWait' = FALSE
  /\ hbTimer' = IF sender = "firing" THEN HEARTBEAT_FREQUENCY ELSE -1
  /\ UNCHANGED <<now, wake, serverSt, busy, sender, exitAt>>
  /\ UNCHANGED offHB

\* the server exited before it answered: proxy.heartbeat() raises and no
\* timer is set again
hb_lost ==
  /\ hbWait
  /\ serverSt = "terminated"
  /\ hbWait' = FALSE
  /\ UNCHANGED <<now, last_heartbeat, wake, serverSt, busy, hbTimer, sender, exitAt>>
  /\ UNCHANGED offHB

\* serving a request counts as a heartbeat
request_start_beat(d) ==
  /\ serverSt = "running"
  /\ busy = 0
  /\ ~hbWait
  /\ busy' = d
  /\ last_heartbeat' = now
  /\ UNCHANGED <<now, wake, serverSt, hbTimer, hbWait, sender, exitAt>>
  /\ UNCHANGED offHB

\* the server starts on a request of another thread (completions, rename,
\* check_syntax, ...) that takes d seconds; requests are served one at a
\* time, in the order of their arrival
request_start(d) ==
  /\ serverSt = "running"
  /\ busy = 0
  /\ ~hbWait
  /\ busy' = d
  /\ UNCHANGED <<now, last_heartbeat, wake, serverSt, hbTimer, hbWait, sender, exitAt>>
  /\ UNCHANGED offHB

\* the editor's heartbeat sender stalls for good (the editor crashed or was
\* closed): no timer fires any more
sender_stall ==
  /\ sender = "firing"
  /\ sender' = "stalled"
  /\ hbTimer' = -1
  /\ UNCHANGED <<now, last_heartbeat, wake, serverSt, busy, hbWait, exitAt>>
  /\ UNCHANGED offHB

\* one second passes, once everything that is due at `now` has happened
tick ==
  /\ now < MaxTime
  /\ ~(serverSt = "starting" /\ now >= MaxStart)
  /\ ~(serverSt = "running" /\ wake = now)
  /\ ~(sender = "firing" /\ hbTimer = 0)
  /\ ~(hbWait /\ serverSt = "running" /\ busy = 0)
  /\ ~(hbWait /\ serverSt = "terminated")
  /\ now' = now + 1
  /\ busy' = IF busy > 0 THEN busy - 1 ELSE 0
  /\ hbTimer' = IF hbTimer > 0 THEN hbTimer - 1 ELSE hbTimer
  /\ UNCHANGED <<last_heartbeat, wake, serverSt, hbWait, sender, exitAt>>
  /\ UNCHANGED offHB

HBNext ==
  \/ server_start
  \/ monitor_wake
  \/ hb_fire
  \/ hb_serve
  \/ hb_lost
  \/ \E d \in 1..MaxService : request_start(d)
  \/ sender_stall
  \/ tick

SpecHB == HBInit /\ [][HBNext]_vars

\* SpecHB with the progress the operating system gives: time passes, a
\* sleep ends, a started process gets to run, a request that reached the
\* server is served, a due timer fires, a failed call returns
SpecHBFair ==
  /\ SpecHB
  /\ WF_vars(tick)
  /\ WF_vars(server_start)
  /\ WF_vars(monitor_wake)
  /\ WF_vars(hb_fire)
  /\ WF_vars(hb_serve)
  /\ WF_vars(hb_lost)

\* C6: while the server runs, its last heartbeat is at most
\* HEARTBEAT_TIMEOUT + Eps seconds old: it has exited by then
C6_ExitWithinTimeout ==
  serverSt = "running" => now - last_heartbeat <= HEARTBEAT_TIMEOUT + Eps

\* C6 as amended: while the server runs, its last heartbeat is at most
\* 2 * HEARTBEAT_TIMEOUT seconds old
C6_ExitWithinTwoTimeouts ==
  serverSt = "running" => now - last_heartbeat <= 2 * HEARTBEAT_TIMEOUT

\* the sender stalled and the server exited more than HEARTBEAT_TIMEOUT + Eps
\* after its last heartbeat
C6_Witness ==
  /\ sender = "stalled"
  /\ serverSt = "terminated"
  /\ exitAt - last_heartbeat > HEARTBEAT_TIMEOUT + Eps

\* C7: while the editor's heartbeat chain is alive, the clock is at most
\* HEARTBEAT_TIMEOUT old whenever the monitor wakes up, and the server has
\* not terminated itself
C7_AliveWhileHeartbeatsSent ==
  (sender = "firing" /\ ChainAlive)
    => /\ serverSt # "terminated"
       /\ (serverSt = "running" /\ wake = now)
            => now - last_heartbeat <= HEARTBEAT_TIMEOUT

\* the requests one server gets, in any order
NextProject ==
  \/ \E source \in Sources, project_path \in ProjectPaths, file_path \in FilePaths :
        completions_request(source, project_path, file_path)
  \/ \E project_path \in ProjectPaths, file_path \in FilePaths :
        report_changed_request(project_path, file_path)
  \/ \E file_path \in FilePaths : report_changed_sentinel(file_path)

SpecProject == Init /\ [][NextProject]_vars

\* The findings of a response whose sender is not bound to the classes and
\* levels of server/linter.py: a message class that parse_errors has no
\* branch for (Redefined of pyflakes), and a PythonLintError of a level
\* that error_level_mapper has no entry for.
FindingsAny ==
  { f \in Findings : f.cls \in {"Pep8Error", "UnusedImport"} } \cup
  { [cls |-> "Redefined", level |-> "none", lineno |-> 2, offset |-> -1,
     word |-> "x", text |-> "redefinition of 'x' from line 1"],
    [cls |-> "PythonLintError", level |-> "I", lineno |-> 2, offset |-> 0,
     word |-> "", text |-> "[I] note"] }

ResponsesAny ==
  {[kind |-> "findings", errors |-> e] :
     e \in UNION {[1..n -> FindingsAny] : n \in 0..MaxFindings}}

NextLintAny ==
  \E v \in Views, response \in ResponsesAny : check_view(v, response)

SpecLintAny == Init /\ [][NextLintAny]_vars

\* SpecNav: one finding per line of the view, and one response per set of
\* lines, so that the checks build every list of erroneous lines.
NavFinding(l) ==
  CASE l = 1 -> CHOOSE f \in Findings : f.cls = "UnusedImport"
    [] l = 2 -> CHOOSE f \in Findings : f.cls = "UndefinedName"
    [] OTHER -> [cls |-> "Pep8Error", level |-> "W", lineno |-> l, offset |-> 79,
                 word |-> "", text |-> "[W] PEP 8 (E501): line too long"]

NavResponses ==
  {[kind |-> "findings",
    errors |-> [i \in 1..Len(Sorted(S)) |-> NavFinding(Sorted(S)[i])]] :
     S \in SUBSET (1..MaxLine)}

\* the view that is checked in SpecNav; the other view never is, and has no
\* entry in erroneous_lines
NavView == CHOOSE v \in Views : \A w \in Views : v <= w

NextNav ==
  \/ \E response \in NavResponses : check_view(NavView, response)
  \/ \E v \in Views : PythonNextErrorCommand(v)
  \/ \E v \in Views : PythonPreviousErrorCommand(v)

SpecNav == Init /\ [][NextNav]_vars

\* the checks of the views, each with any response
NextLint ==
  \E v \in Views, response \in Responses : check_view(v, response)

SpecLint == Init /\ [][NextLint]_vars

\* one Proxy, its worker processes and the calls through it, one at a time
NextCall ==
  \/ \E attr \in Methods : call_begin(attr)
  \/ call_send
  \/ call_giveup
  \/ \E e \in {"none", "resource", "syntax", "other"} : worker_serve(e)
  \/ worker_ready
  \/ worker_exit
  \/ call_ok
  \/ call_except
  \/ call_return

SpecCall == Init /\ [][NextCall]_vars

\* the user's edits, saves and commands on one view, and the handlers and
\* commands they start
NextSave ==
  \/ user_edit
  \/ \E b \in BOOLEAN : user_setting(b)
  \/ \E named \in BOOLEAN : user_open(named)
  \/ user_save
  \/ user_organize
  \/ on_post_save_test
  \/ on_post_save_finally
  \/ run_start
  \/ \E outcome \in {"noproxy", "organized", "raise"} : run_body(outcome)
  \/ run_end

SpecSave == Init /\ [][NextSave]_vars

\* ------------------------------------------------------------------ claims
\* the handler of thread t holds the Proxy that proxy_for returned to it
HoldsProxy(t) ==
  \/ th[t].pc \in {"w_check", "w_bind", "w_loop", "w_call", "w_restart"}
  \/ th[t].pc = "done" /\ th[t].out # "pf_raised"

\* the interpreter a server process was launched for
InterpreterOf(p) == proxies[launched[p]].python

\* C1: at no moment are two RPC calls of different threads in flight on the
\* same ServerProxy of one Proxy (a forwarded request and a heartbeat, or two
\* forwarded requests)
C1_CallsSerialized ==
  \A t1, t2 \in Threads :
    (t1 # t2 /\ InFlight(t1) /\ InFlight(t2))
      => ~(th[t1].self = th[t2].self /\ th[t1].method = th[t2].method)

\* C2: a call that began when the Proxy's process had exited, and whose
\* replacement process was healthy (launched without crash, listening at
\* every retry, no fault), returns a valid response
C2_CallRecoversFromDeadWorker ==
  \A t \in Threads :
    (th[t].pc = "done" /\ th[t].track) => th[t].out = "ok"

\* C3: every Proxy ever constructed is the registry's entry for its
\* interpreter unless the stop command removed it, so that without a stop
\* exactly one Proxy exists per interpreter; the Proxy a thread got from
\* proxy_for is one constructed for the interpreter it asked for, and two
\* threads that asked for the same interpreter hold the same Proxy unless a
\* stop removed one of them
C3_OneProxyPerInterpreter ==
  /\ \A s \in 1..nProxy : s \in removed \/ PROXIES[proxies[s].python] = s
  /\ \A t \in Threads :
       HoldsProxy(t) => /\ th[t].self \in 1..nProxy
                        /\ proxies[th[t].self].python = th[t].python
  /\ \A t1, t2 \in Threads :
       (/\ HoldsProxy(t1) /\ HoldsProxy(t2)
        /\ th[t1].self \notin removed /\ th[t2].self \notin removed)
         => (th[t1].python = th[t2].python <=> th[t1].self = th[t2].self)

\* two threads hold the one Proxy of the interpreter both asked for while a
\* Proxy of the other interpreter exists too
C3_Witness ==
  /\ HoldsProxy("main") /\ HoldsProxy("async")
  /\ th["main"].self = th["async"].self
  /\ nProxy = 2 /\ removed = {}

\* C4: the wrapper makes at most RETRY_CONNECTION_LIMIT attempts, and after
\* that many failed attempts it returns None: it does not raise
C4_CallNeverRaises ==
  \A t \in Threads :
    /\ th[t].tries <= RETRY_CONNECTION_LIMIT
    /\ (th[t].pc = "done" /\ th[t].tries = RETRY_CONNECTION_LIMIT)
         => th[t].out = "none"

\* C5: whenever the wrapper's except branch runs restart(), the Proxy's
\* process has exited: a live process is never replaced by a call
C5_RestartOnlyDeadWorker ==
  [][\A t \in Threads :
       (th[t].pc = "w_restart" /\ th'[t].pc = "w_loop")
         => ~Alive(proxies[th[t].self].proc)]_vars

\* C8: at most one live server process exists per interpreter (stated for
\* the states in which no stop command is between its two statements)
C8_OneLiveWorkerPerInterpreter ==
  (\A t \in Threads : th[t].pc # "st_term")
    => \A p1, p2 \in ProcIds :
         (Alive(p1) /\ Alive(p2) /\ InterpreterOf(p1) = InterpreterOf(p2))
           => p1 = p2

\* C9: the registry never holds a Proxy whose process had already exited
\* when the restart() that launched it returned
C9_NoBrokenProxyRegistered ==
  \A k \in Keys :
    PROXIES[k] # 0 => procs[proxies[PROXIES[k]].proc] # "crashed"

\* C10: when Proxy(python) raises inside proxy_for, the exception reaches the
\* caller, PROXIES is what it was, with no entry for that interpreter, no
\* Proxy object was recorded, and the registry lock is free again
C10_ConstructionFailureLeavesRegistry ==
  [][\A t \in Threads :
       (th[t].pc = "pf_new" /\ th'[t].pc = "done")
         => /\ th'[t].out = "pf_raised"
            /\ PROXIES' = PROXIES /\ PROXIES'[th[t].python] = 0
            /\ nProxy' = nProxy
            /\ PROXY_LOCK' = "free"]_vars

\* a thread is inside proxy_for, holding the lock, after the construction
\* in another thread's proxy_for raised
C10_Witness ==
  \E t, u \in Threads :
    /\ th[t].pc = "done" /\ th[t].out = "pf_raised"
    /\ th[u].pc = "pf_in" /\ PROXY_LOCK = u

\* C11: two registry keys that name the same interpreter have the same Proxy:
\* one Proxy, hence one server process, serves both
C11_AliasesShareProxy ==
  \A k1, k2 \in Keys :
    (PROXIES[k1] # 0 /\ PROXIES[k2] # 0 /\ RealInterpreter(k1) = RealInterpreter(k2))
      => PROXIES[k1] = PROXIES[k2]

C13_MonitorRule ==
  /\ [](serverSt = "running"
          => (last_heartbeat >= 0 /\ last_heartbeat <= now /\ now <= wake))
  /\ [][(serverSt = "running" /\ wake = now /\ (serverSt' # serverSt \/ wake' # wake))
          => /\ (serverSt' = "terminated") <=> (now - last_heartbeat > HEARTBEAT_TIMEOUT)
             /\ serverSt' # "terminated"
                  => (serverSt' = "running" /\ wake' = now + HEARTBEAT_TIMEOUT)]_vars
  /\ [][(serverSt = "running" /\ serverSt' = "terminated") => wake = now]_vars
  /\ [][(serverSt = "running" /\ hbWait /\ ~hbWait') => last_heartbeat' = now]_vars
  /\ [][serverSt = "terminated"
          => (serverSt' = "terminated" /\ last_heartbeat' = last_heartbeat
              /\ busy' = 0)]_vars

\* the server ended at a wake-up while a heartbeat request was waiting for it
C13_Witness ==
  /\ serverSt = "terminated"
  /\ exitAt = wake
  /\ exitAt - last_heartbeat > HEARTBEAT_TIMEOUT
  /\ hbWait

\* C14: the clock changes only when the server starts and when it serves a
\* heartbeat: starting on a request and working on it leave it unchanged,
\* and a server that works on requests still ends within two timeouts of
\* its last heartbeat
C14_OnlyHeartbeatSetsClock ==
  /\ [][last_heartbeat' # last_heartbeat
          => (serverSt = "starting" \/ (hbWait /\ ~hbWait' /\ busy = 0))]_vars
  /\ [][busy' > busy => last_heartbeat' = last_heartbeat]_vars
  /\ []((serverSt = "running" /\ busy > 0)
          => now - last_heartbeat <= 2 * HEARTBEAT_TIMEOUT)

\* no heartbeat arrives any more, the server works on a request and its
\* clock is older than the timeout
C14_Witness ==
  /\ sender = "stalled"
  /\ ~hbWait
  /\ serverSt = "running"
  /\ busy > 0
  /\ now - last_heartbeat > HEARTBEAT_TIMEOUT

\* C15: a server whose heartbeat sender has stalled for good terminates
\* (stated for stalls early enough for the run to last until then)
C15_OrphanExits ==
  (/\ sender = "stalled"
   /\ serverSt \in {"starting", "running"}
   /\ now + MaxStart + MaxService + 2 * HEARTBEAT_TIMEOUT <= MaxTime)
    ~> (serverSt = "terminated")

\* the sender stalled and the server has ended within the timeout of its
\* last heartbeat
C15_Witness ==
  /\ sender = "stalled"
  /\ serverSt = "terminated"
  /\ hbTimer = -1 /\ ~hbWait
  /\ exitAt - last_heartbeat <= HEARTBEAT_TIMEOUT + Eps

\* C16: when a listening server answers a call, whatever its analysis did,
\* the wrapper returns that answer: it counts no failed attempt and does not
\* go round its retry loop
C16_AnalysisFailureNotRetried ==
  [][\A t \in Threads :
       (th[t].pc = "w_call" /\ Listening(th[t].method) /\ th'[t].pc # "w_call")
         => (th'[t].pc = "done" /\ th'[t].tries = th[t].tries)]_vars

\* C17: for every key at most one context has been created, and a request
\* gets the context that the first request with its key got
C17_OneContextPerKey ==
  /\ \A k \in AllKeys : made[k] <= 1
  /\ last.project # 0
       => first[KeyOf(last.project_path, last.file_path)] = last.project

\* C18: project_for takes the single-file branch exactly for the sentinel
\* project path with a file path that is no buffer id; for the empty project
\* path it takes the project branch, and the context is a project of root ""
\* kept under the key ""
C18_SentinelSelectsSingleFile ==
  last.branch # "none"
    => /\ (last.branch = "single")
            <=> (last.project_path = NO_ROOT_PATH /\ ~IsBuffer(last.file_path))
       /\ (last.project_path = "" /\ ~IsBuffer(last.file_path))
            => /\ last.branch = "project"
               /\ projects[""] = last.project
               /\ contexts[last.project] = [kind |-> "project", path |-> ""]

\* a request with the empty project path has created a project
C18_Witness ==
  /\ last.project_path = ""
  /\ ~IsBuffer(last.file_path)
  /\ last.branch = "project"
  /\ last.created = 1

\* C19: in every state of the server and for all arguments, completions
\* after report_changed returns the proposals completions returns without
\* it, and report_changed with the sentinel leaves the server state as it is
C19_ReportChangedKeepsProposals ==
  /\ \A source \in Sources, project_path \in ProjectPaths, file_path \in FilePaths :
       LET direct == completions(ServerState, source, project_path, file_path)
           reported == report_changed(ServerState, project_path, file_path)
           after == completions(reported.P, source, project_path, file_path)
       IN after.proposals = direct.proposals
  /\ \A file_path \in FilePaths :
       report_changed(ServerState, NO_ROOT_PATH, file_path).P = ServerState

\* completions for a buffer has followed report_changed for the same buffer,
\* which had created the buffer's temp file and project
C19_Witness ==
  /\ last.method = "completions"
  /\ last.prev = "report_changed"
  /\ last.same
  /\ IsBuffer(last.file_path)
  /\ last.created = 0
  /\ tempfiles # <<>>

\* C20: a check whose check_syntax call returned None leaves the annotation
\* state of its view (the three message maps, the three underline lists,
\* the erroneous-lines list and the marks drawn) exactly as the previous
\* check of that view left it
C20_FailedCheckKeepsAnnotations ==
  [][\A v \in Views :
       (/\ ltLast'.flip # ltLast.flip
        /\ ltLast'.view = v
        /\ ltLast'.kind = "none"
        /\ erroneous_lines[v].set)
         => Annotations(v)' = Annotations(v)]_vars

\* C21: a check whose response cannot be unpickled is caught inside check
\* and leaves the annotation state of its view as it was
C21_GarbledKeepsAnnotations ==
  [][\A v \in Views :
       (/\ ltLast'.flip # ltLast.flip
        /\ ltLast'.view = v
        /\ ltLast'.kind = "garbled")
         => /\ Annotations(v)' = Annotations(v)
            /\ ltLast'.outcome = "caught"]_vars

C21_Witness ==
  \E v \in Views :
    /\ ltLast.view = v
    /\ ltLast.kind = "garbled"
    /\ ltLast.outcome = "caught"
    /\ erroneous_lines[v].data # <<>>
    /\ marks[v] # NoMarks

\* the maps and lists of an annotation state, and its erroneous lines
Rebuilt(A) ==
  <<A.error_messages, A.violation_messages, A.warning_messages,
    A.error_underlines, A.violation_underlines, A.warning_underlines,
    A.erroneous_lines>>

\* C22: a check with a well-formed response gives its view the message maps,
\* underline lists and erroneous lines that the same response gives a view
\* never checked before, every erroneous line is the line of a finding of
\* the response, and the annotation state of the other views is unchanged
C22_RebuiltWholesale ==
  [][\A v \in Views :
       (/\ ltLast'.flip # ltLast.flip
        /\ ltLast'.view = v
        /\ ltLast'.kind = "findings")
         => /\ \A B \in {check(Unchecked, [kind |-> "findings",
                                           errors |-> ltLast'.errors])} :
                 Rebuilt(Annotations(v)') = Rebuilt(B)
            /\ \A i \in 1..Len(erroneous_lines'[v].data) :
                 \E j \in 1..Len(ltLast'.errors) :
                   erroneous_lines'[v].data[i] = ltLast'.errors[j].lineno - 1
            /\ \A w \in Views \ {v} : Annotations(w)' = Annotations(w)]_vars

\* a check with an empty list of findings on a view that had erroneous
\* lines, while the other view keeps its own
C22_Witness ==
  \E v \in Views :
    /\ ltLast.view = v
    /\ ltLast.kind = "findings"
    /\ ltLast.errors = <<>>
    /\ ltLast.had
    /\ erroneous_lines[v].data = <<>>
    /\ \E w \in Views \ {v} : erroneous_lines[w].data # <<>>

\* whether parse_errors skips the finding (`continue`)
Suppressed(f) == f.cls = "ImportStarUsed" /\ ignore_star

\* the message map of the view for the level of a finding
MapOf(v, f) ==
  LET level == IF f.level = "none" THEN "W" ELSE f.level
  IN CASE level = "E" -> error_messages[v]
       [] level = "V" -> violation_messages[v]
       [] OTHER -> warning_messages[v]

\* whether the message of the finding is in the list of its line
HasMessage(v, f) ==
  \E i \in 1..Len(MapOf(v, f)[f.lineno - 1]) :
    MapOf(v, f)[f.lineno - 1][i] = add_message_text(f.text)

Scenario ==
  << CHOOSE f \in Findings : f.cls = "Pep8Error",
     CHOOSE f \in Findings : f.cls = "UnusedImport" >>

\* whether x is an element of the sequence
InSeq(x, seq) == \E i \in 1..Len(seq) : seq[i] = x

\* what the scenario puts on line 3 (key 2) and the line set
ScenarioLines(v) ==
  /\ erroneous_lines[v].data = <<0, 2>>
  /\ InSeq("[W] PEP 8 (E501): line too long", warning_messages[v][2])

\* C24 as stated: after a check with the findings of the scenario the line
\* set is {0, 2}, warning_messages[2] holds the PEP 8 message,
\* error_messages[0] holds "'os' imported but unused" and error_underlines
\* holds the regions of the token os on line 0
C24_ScenarioErrorMaps ==
  \A v \in Views :
    (ltLast.view = v /\ ltLast.kind = "findings" /\ ltLast.errors = Scenario)
      => /\ ScenarioLines(v)
         /\ InSeq("'os' imported but unused", error_messages[v][0])
         /\ InSeq(<<0, 7>>, error_underlines[v])
         /\ InSeq(<<0, 8>>, error_underlines[v])

\* C24 amended: the message and the regions of the unused import are in the
\* warning map and the warning underline list (a pyflakes message has no
\* level and is a warning); the error map and list stay empty
C24_ScenarioWarningMaps ==
  \A v \in Views :
    (ltLast.view = v /\ ltLast.kind = "findings" /\ ltLast.errors = Scenario)
      => /\ ScenarioLines(v)
         /\ warning_messages[v][0] = <<"'os' imported but unused">>
         /\ InSeq(<<0, 7>>, warning_underlines[v])
         /\ InSeq(<<0, 8>>, warning_underlines[v])
         /\ InSeq(<<2, 79>>, warning_underlines[v])
         /\ Len(warning_underlines[v]) = 3
         /\ error_messages[v] = NoMessages
         /\ error_underlines[v] = <<>>

C24_Witness ==
  \E v \in Views :
    /\ ltLast.view = v
    /\ ltLast.kind = "findings"
    /\ ltLast.errors = Scenario
    /\ ltLast.outcome = "done"
    /\ InSeq(<<0, 7>>, warning_underlines[v])

\* the index of x in a list of distinct elements
IndexOf(x, seq) == CHOOSE i \in 1..Len(seq) : seq[i] = x

\* the cyclic successor and predecessor of x in the list
CyclicSucc(x, seq) == seq[(IndexOf(x, seq) % Len(seq)) + 1]
CyclicPred(x, seq) == seq[((IndexOf(x, seq) - 2) % Len(seq)) + 1]

\* C25: on a list of n >= 1 lines on which only next() was called since it
\* was built, the k-th call returned the element of index (k-1) mod n, and
\* the pointer of every non-empty list is within 0..n-1
C25_NextCycles ==
  \A v \in Views :
    LET L == erroneous_lines[v]
        n == Len(L.data)
    IN (L.set /\ n >= 1)
         => /\ L.pointer \in 0..(n - 1)
            /\ (nav[v].nexts /\ nav[v].calls \in 1..(MaxCalls - 1))
                 => /\ ~nav[v].raised
                    /\ nav[v].result = L.data[((nav[v].calls - 1) % n) + 1]

\* the call after the last element of a list of three lines wraps
C25_Witness ==
  \E v \in Views :
    /\ Len(erroneous_lines[v].data) = 3
    /\ nav[v].nexts
    /\ nav[v].calls = 4
    /\ nav[v].result = erroneous_lines[v].data[1]

\* C26: on a non-empty list every call after the first returns the cyclic
\* successor (next) or the cyclic predecessor (previous) of the element the
\* call before it returned
C26_NeighbourOfLast ==
  \A v \in Views :
    LET L == erroneous_lines[v]
    IN (L.set /\ Len(L.data) >= 1 /\ nav[v].calls >= 2)
         => /\ ~nav[v].raised
            /\ nav[v].op = "next"
                 => nav[v].result = CyclicSucc(nav[v].prevResult, L.data)
            /\ nav[v].op = "previous"
                 => nav[v].result = CyclicPred(nav[v].prevResult, L.data)

\* previous() right after the first next() on three lines returns the last
C26_Witness ==
  \E v \in Views :
    /\ Len(erroneous_lines[v].data) = 3
    /\ nav[v].calls = 2
    /\ nav[v].prevOp = "next"
    /\ nav[v].op = "previous"
    /\ nav[v].prevResult = erroneous_lines[v].data[1]
    /\ nav[v].result = erroneous_lines[v].data[3]

\* whether the last call on the list of v reversed the direction
Reversed(v) ==
  /\ erroneous_lines[v].set
  /\ Len(erroneous_lines[v].data) >= 1
  /\ nav[v].calls >= 2
  /\ nav[v].op # nav[v].prevOp

\* C27 as stated: a call that reverses the direction returns the element
\* that the call before it returned
C27_ReversalRevisits ==
  \A v \in Views : Reversed(v) => nav[v].result = nav[v].prevResult

\* C27 amended: a call that reverses the direction returns the neighbour,
\* in the new direction, of the element that the call before it returned;
\* it is that same element only on a list of one line
C27_ReversalMovesOn ==
  \A v \in Views :
    Reversed(v)
      => /\ nav[v].result =
              IF nav[v].op = "next"
              THEN CyclicSucc(nav[v].prevResult, erroneous_lines[v].data)
              ELSE CyclicPred(nav[v].prevResult, erroneous_lines[v].data)
         /\ (nav[v].result = nav[v].prevResult)
              <=> (Len(erroneous_lines[v].data) = 1)

\* next() right after previous() on three lines
C27_Witness ==
  \E v \in Views :
    /\ Reversed(v)
    /\ Len(erroneous_lines[v].data) = 3
    /\ nav[v].prevOp = "previous"
    /\ nav[v].op = "next"
    /\ nav[v].result # nav[v].prevResult

\* the positions inside the with blocks of proxy_for and of the stop command
InWithBlock(t) == th[t].pc \in {"pf_in", "pf_new", "st_in", "st_term"}

\* a step of the holder of the lock inside its with block
HolderStep(t) ==
  \/ proxy_for_hit(t)
  \/ proxy_for_miss(t)
  \/ proxy_for_raise(t)
  \/ stop_run(t)
  \/ stop_terminate(t)

\* C28: a thread holds PROXY_LOCK only inside the with block of proxy_for or
\* of the stop command, never while an RPC of it is in flight, and the
\* holder can always take its next step towards the end of the block
\* without waiting for anything, so that no thread waits for the lock for
\* the length of an RPC
C28_LockNotHeldDuringRPC ==
  \A t \in Threads :
    /\ PROXY_LOCK = t => (InWithBlock(t) /\ ENABLED HolderStep(t))
    /\ InFlight(t) => PROXY_LOCK # t
    /\ InWithBlock(t) => PROXY_LOCK = t

\* an RPC of one thread is in flight while another thread is inside
\* proxy_for for another interpreter
C28_Witness ==
  \E t, u \in Threads :
    /\ InFlight(t)
    /\ th[u].pc = "pf_new"
    /\ PROXY_LOCK = u
    /\ th[u].python # th[t].python

\* whether the regions of an underline list are in non-decreasing line order
LineOrdered(underlines) ==
  \A i, j \in 1..Len(underlines) : i < j => underlines[i][1] <= underlines[j][1]

\* C29: after a check that parsed its findings the regions of each of the
\* three underline lists of the view are in non-decreasing line order,
\* whatever the order of the findings in the response
C29_FindingsInLineOrder ==
  \A v \in Views :
    (ltLast.view = v /\ ltLast.kind = "findings" /\ ltLast.outcome = "done")
      => /\ LineOrdered(error_underlines[v])
         /\ LineOrdered(violation_underlines[v])
         /\ LineOrdered(warning_underlines[v])

\* the findings of the last response that are not suppressed, have the
\* level (the level 'W' also when they carry none) and are on line l + 1
OfLevelOnLine(level, l) ==
  {i \in 1..Len(ltLast.errors) :
     /\ ~Suppressed(ltLast.errors[i])
     /\ (IF ltLast.errors[i].level = "none" THEN "W" ELSE ltLast.errors[i].level)
          = level
     /\ ltLast.errors[i].lineno - 1 = l}

\* the list of line l in a map holds one message per finding of the set,
\* and the message of each
OneMessageEach(messages, level, l) ==
  /\ Len(messages[l]) = Cardinality(OfLevelOnLine(level, l))
  /\ \A i \in OfLevelOnLine(level, l) :
       InSeq(add_message_text(ltLast.errors[i].text), messages[l])

\* C30: after a check that parsed its findings, each map of the view holds
\* under the key lineno-1 exactly one message for every finding of its
\* level that is not suppressed (the warning map also for the findings
\* without a level) and nothing else, the erroneous lines are the keys
\* lineno-1 of those findings, and a suppressed wildcard-import finding
\* adds nothing to any map or line
C30_OneMessagePerFinding ==
  \A v \in Views :
    (ltLast.view = v /\ ltLast.kind = "findings" /\ ltLast.outcome = "done")
      => \A l \in Lines0 :
           /\ OneMessageEach(error_messages[v], "E", l)
           /\ OneMessageEach(violation_messages[v], "V", l)
           /\ OneMessageEach(warning_messages[v], "W", l)
           /\ InSeq(l, erroneous_lines[v].data)
                <=> \E level \in Levels : OfLevelOnLine(level, l) # {}

\* a batch with a suppressed wildcard import, a finding without a level and
\* an error
C30_Witness ==
  \E v \in Views :
    /\ ltLast.view = v
    /\ ltLast.kind = "findings"
    /\ ltLast.outcome = "done"
    /\ Len(ltLast.errors) = 2
    /\ Suppressed(ltLast.errors[1])
    /\ ltLast.errors[2].level = "none"
    /\ warning_messages[v][ltLast.errors[2].lineno - 1] # <<>>
    /\ erroneous_lines[v].data = <<ltLast.errors[2].lineno - 1>>

\* the level parse_errors gives a finding
LevelOf(f) == IF f.level = "none" THEN "W" ELSE f.level

\* the underline list of the view for a level
ListOf(v, level) ==
  CASE level = "E" -> error_underlines[v]
    [] level = "V" -> violation_underlines[v]
    [] OTHER -> warning_underlines[v]

\* how often x is in the sequence
Count(x, seq) == Cardinality({i \in 1..Len(seq) : seq[i] = x})

\* the findings of the last response with a column offset, a level and a
\* region <<line, column>>
OffsetFindings(level, region) ==
  {i \in 1..Len(ltLast.errors) :
     /\ ltLast.errors[i].cls \in OffsetClasses
     /\ LevelOf(ltLast.errors[i]) = level
     /\ <<ltLast.errors[i].lineno - 1, ltLast.errors[i].offset>> = region}

\* the regions that the findings without a column offset put into the list
\* of a level: those of the tokens underline_regex finds
RegexRegions(level) ==
  UNION {{<<ltLast.errors[i].lineno - 1, c>> :
            c \in UNION {sp[1]..(sp[1] + sp[2] - 1) :
                           sp \in {underline_regex(ltLast.errors[i].lineno,
                                                   ltLast.errors[i].cls,
                                                   ltLast.errors[i].word)[k] :
                                     k \in 1..Len(underline_regex(
                                                    ltLast.errors[i].lineno,
                                                    ltLast.errors[i].cls,
                                                    ltLast.errors[i].word))}}} :
         i \in {j \in 1..Len(ltLast.errors) :
                  /\ ltLast.errors[j].cls \notin OffsetClasses
                  /\ ~Suppressed(ltLast.errors[j])
                  /\ LevelOf(ltLast.errors[j]) = level}}

\* C31: after a check that parsed its findings, the underline list of each
\* level holds the one-character region <<lineno-1, offset>> once for every
\* finding with a column offset of that level and position, and no list
\* holds such a region for a finding of another level
C31_OneRegionAtOffset ==
  \A v \in Views :
    (ltLast.view = v /\ ltLast.kind = "findings" /\ ltLast.outcome = "done")
      => \A level \in Levels, l \in Lines0 :
           \A i \in 1..Len(ltLast.errors) :
             LET region == <<l, ltLast.errors[i].offset>>
             IN (ltLast.errors[i].cls \in OffsetClasses /\ region \notin RegexRegions(level))
                  => Count(region, ListOf(v, level)) =
                       Cardinality(OffsetFindings(level, region))

\* a batch of an error at line 1, column 3 and a warning at line 3, column
\* 79: one region in the error list, one in the warning list
C31_Witness ==
  \E v \in Views :
    /\ ltLast.view = v
    /\ ltLast.kind = "findings"
    /\ ltLast.outcome = "done"
    /\ error_underlines[v] = << <<0, 3>> >>
    /\ warning_underlines[v] = << <<2, 79>> >>
    /\ violation_underlines[v] = <<>>

C37_FirstPreviousIsLast ==
  \A v \in Views :
    LET L == erroneous_lines[v]
    IN (L.set /\ Len(L.data) >= 2 /\ nav[v].calls = 1 /\ nav[v].op = "previous")
         => /\ ~nav[v].raised
            /\ nav[v].result = L.data[Len(L.data)]

\* C38: no next-error or previous-error command has raised, and the list of
\* a view that has none or an empty one is as the check left it: pointer 0,
\* direction FORWARD
C38_CommandsNeverRaise ==
  \A v \in Views :
    /\ ~nav[v].raised
    /\ erroneous_lines[v].data = <<>>
         => /\ erroneous_lines[v].pointer = 0
            /\ erroneous_lines[v].direction = "FORWARD"

\* the names of the temp files created so far
TempFileNames == {TmpName(n) : n \in 1..Len(tempfiles)}

\* C39: a buffer id has a project exactly if it has a temp file, and that
\* file is listed in tempfiles; a request for a buffer id creates a temp
\* file only if the buffer has none yet, one then, and the buffer keeps it;
\* no request takes a file off tempfiles
C39_BufferTempFiles ==
  /\ [](\A b \in BufferIds :
          /\ (projects[b] # 0) <=> (buffer_tmpfile_map[b] # "")
          /\ buffer_tmpfile_map[b] # "" => buffer_tmpfile_map[b] \in TempFileNames)
  /\ [][/\ Len(tempfiles') >= Len(tempfiles)
        /\ SubSeq(tempfiles', 1, Len(tempfiles)) = tempfiles
        /\ \A b \in BufferIds :
             /\ buffer_tmpfile_map[b] # ""
                  => buffer_tmpfile_map'[b] = buffer_tmpfile_map[b]
             /\ (last'.file_path = b /\ last'.branch # "none")
                  => /\ last'.branch = "buffer"
                     /\ last'.file_path_out = buffer_tmpfile_map'[b]
                     /\ Len(tempfiles') - Len(tempfiles) =
                          IF buffer_tmpfile_map[b] = "" THEN 1 ELSE 0]_vars

\* a buffer was queried again, by another method, and got the temp file of
\* its first query while another temp file had been created in between
C39_Witness ==
  /\ IsBuffer(last.file_path)
  /\ last.branch = "buffer"
  /\ last.created = 0
  /\ last.prev # last.method
  /\ Len(tempfiles) = 2
  /\ last.file_path_out = TmpName(1)

\* C34: no Proxy has more than one heartbeat timer pending
C34_OneTimerPerProxy == \A s \in ProxyIds : timers[s] <= 1

\* a send_heartbeat callback of Proxy s is running
HeartbeatInProgress(s) ==
  \E t \in TimerThreads : th[t].pc \in {"hb_send", "hb_call"} /\ th[t].self = s

\* C35: a Proxy that has a ServerProxy has a heartbeat timer pending or a
\* send_heartbeat callback running
C35_HeartbeatGoesOn ==
  \A s \in ProxyIds :
    proxies[s].proxy # 0 => (timers[s] > 0 \/ HeartbeatInProgress(s))

\* the methods of the server that change files of the project
SideEffecting == {"rename"}

\* C36: for one call of rename the workers have run the method at most once
C36_SideEffectOnce == wrapper.attr \in SideEffecting => ran <= 1

\* the organize-imports runs in progress that a handler started
NestedRuns ==
  {j \in 1..Len(stack) :
     stack[j].fn = "run" /\ \E i \in 1..(j - 1) : stack[i].fn = "on_post_save"}

\* C33: while an on_post_save handler runs, at most one organize-imports
\* run that a handler started is in progress, and _post_save_is_on is True
\* whenever no on_post_save handler is running
C33_NoRecursionFlagRestored ==
  /\ Cardinality(NestedRuns) <= 1
  /\ ~InHandler(stack) => post_save_is_on

\* the handlers have returned; one of them was the handler of the
\* command's own save and returned at the test of the flag, and in one the
\* command raised
C33_Witness ==
  /\ stack = <<>>
  /\ svLast.skipped
  /\ svLast.raised
  /\ post_save_is_on

====
